---- MODULE Spec2Model ----
(***************************************************************************)
(* Citation Graph Auditor (src/forge): citation extraction, source        *)
(* classification and scoring, graph construction and graph analysis.     *)
(*                                                                         *)
(* Numbers: Python floats are modelled as exact rationals <<n, d>> in      *)
(* lowest terms with d > 0.                                                *)
(* Strings: a URL is a record [scheme, host, tail]; host is the sequence   *)
(* of its dot-separated labels and tail the sequence of the characters     *)
(* (atoms) that follow the host.  Dictionaries are functions; a missing    *)
(* key is a key outside DOMAIN, read with Get as dict.get reads it.        *)
(***************************************************************************)
EXTENDS Integers, Sequences, FiniteSets, TLC

VARIABLES
    config,              \* the configuration module read by every component
    article_data,        \* argument of the last build_graph call
    graph,               \* CitationGraphBuilder.graph, the object build_graph returns
    analyzer,            \* the GraphAnalyzer instance (its caches), or NoAnalyzer
    results,             \* what the last analyze() call returned or raised
    history,             \* the results of the (last two) analyze() calls made since
                         \* the graph last changed
    mutations,           \* how often the graph was changed after it was built
    score,               \* arguments and value of the last calculate_reliability_score call
    measure,             \* argument and value of the last calculate_diversity_score call
    text,                \* argument of the last extract_citations_from_text call
    citations,           \* the list that call returned
    page,                \* the page served for the last fetch
    raising,             \* the hosts on which the suffix lookup raises during that fetch
    entry,               \* the entry point this run called
    article,             \* what the fetch returned
    payload,             \* the raw chunk text last unescaped, and the text obtained
    objects,             \* the graph objects (nx.DiGraph) allocated so far
    builders,            \* per CitationGraphBuilder, the object self.graph refers to
    threads,             \* per parallel run: its builder, its article and where it is
    run                  \* the command-line run: where main() is, its locals and its exit

graphVars == <<article_data, graph, analyzer, results, history, mutations, score, measure>>
textVars == <<text, citations, page, raising, entry, article, payload>>
parVars == <<objects, builders, threads>>
cliVars == <<run>>
vars == <<config, graphVars, textVars, parVars, cliVars>>

----------------------------------------------------------------------------
(* Float arithmetic as exact rationals *)

Abs(x) == IF x < 0 THEN -x ELSE x

RECURSIVE GCD(_, _)
GCD(a, b) == IF b = 0 THEN a ELSE GCD(b, a % b)

R(n, d) ==
    LET g == GCD(Abs(n), d)
    IN  IF n = 0 THEN <<0, 1>> ELSE <<n \div g, d \div g>>

Zero == R(0, 1)
One == R(1, 1)
\* sums over the least common denominator and products cancelled crosswise,
\* so that intermediate values stay small
LCM(a, b) == (a \div GCD(a, b)) * b
RAdd(a, b) ==
    LET l == LCM(a[2], b[2])
    IN  R(a[1] * (l \div a[2]) + b[1] * (l \div b[2]), l)
RSub(a, b) == RAdd(a, <<-b[1], b[2]>>)
RMul(a, b) ==
    LET g == GCD(Abs(a[1]), b[2])
        h == GCD(Abs(b[1]), a[2])
    IN  R((a[1] \div g) * (b[1] \div h), (a[2] \div h) * (b[2] \div g))
RLt(a, b) == a[1] * b[2] < b[1] * a[2]
RLe(a, b) == a[1] * b[2] <= b[1] * a[2]
RMin(a, b) == IF RLt(b, a) THEN b ELSE a
RMax(a, b) == IF RLt(a, b) THEN b ELSE a
InUnit(a) == RLe(Zero, a) /\ RLe(a, One)

\* Optional values: None is the empty sequence, a value x is <<x>>
None == <<>>
Some(x) == <<x>>

Get(d, key, default) == IF key \in DOMAIN d THEN d[key] ELSE default

Range(s) == {s[i] : i \in DOMAIN s}

\* number of distinct values of a list: len(set(xs))
Unique(xs) == Cardinality(Range(xs))

\* occurrences of v in xs
RECURSIVE Count(_, _)
Count(xs, v) ==
    IF xs = <<>> THEN 0
    ELSE (IF xs[1] = v THEN 1 ELSE 0) + Count(Tail(xs), v)

\* max(counts.values()) of the counting dict built from xs (xs non-empty)
MaxCount(xs) ==
    LET cs == {Count(xs, v) : v \in Range(xs)}
    IN  CHOOSE m \in cs : \A c \in cs : c <= m

----------------------------------------------------------------------------
(* URLs and domains *)

Url(s, h, t) == [scheme |-> s, host |-> h, tail |-> t]

\* the text of a link (the text of a bare URL is the URL itself)
Label(t) == [label |-> t]

HttpSchemes == {"http://", "https://"}

\* str.startswith(('http://', 'https://'))
StartsWithHttp(u) == u.scheme \in HttpSchemes

\* the suffixes the public suffix list knows (tldextract), as single labels
PublicSuffixes == {"com", "edu", "gov", "org", "ac.uk", "gov.uk"}

\* tldextract.extract(host).suffix
Suffix(h) ==
    IF Len(h) >= 2 /\ h[Len(h)] \in PublicSuffixes THEN h[Len(h)] ELSE ""

\* utils.extract_domain: the netloc of an http(s) URL
extract_domain(u) == u.host

\* the registrable domain of a host: "<domain>.<suffix>", else the host itself
NormalizeHost(h) ==
    IF Suffix(h) # "" THEN <<h[Len(h) - 1], h[Len(h)]>> ELSE h

normalize_domain(u) == NormalizeHost(extract_domain(u))

\* "s in domain": the substring test, on hosts whose labels are whole words
InDomain(word, h) == word \in Range(h)

----------------------------------------------------------------------------
(* config: the configuration module (read-only at run time) *)

Categories == {"academic", "government", "ngo", "news", "other"}

\* RELIABILITY_SCORES: academic highest, other lowest
TypicalScores ==
    [c \in Categories |->
        CASE c = "academic" -> R(9, 10)
          [] c = "government" -> R(17, 20)
          [] c = "ngo" -> R(7, 10)
          [] c = "news" -> R(3, 5)
          [] OTHER -> R(3, 10)]

\* a table at the ends of the scale, where the bonus and the penalty leave [0,1]
ExtremeScores ==
    [c \in Categories |-> IF c = "academic" THEN One ELSE IF c = "other" THEN R(1, 10) ELSE R(1, 2)]

\* SOURCE_CATEGORIES: keyword lists per category, in iteration order
SourceCategories ==
    << [category |-> "academic", keywords |-> <<"nature", "arxiv">>],
       [category |-> "government", keywords |-> <<"senate">>],
       [category |-> "news", keywords |-> <<"bbc", "nature">>],
       [category |-> "other", keywords |-> <<"blog">>] >>

Configs ==
    { [RELIABILITY_SCORES |-> t,
       TRUSTED_DOMAINS |-> {"edu", "gov"},
       SOURCE_CATEGORIES |-> SourceCategories,
       MIN_CITATIONS |-> m,
       BIAS_THRESHOLD |-> R(1, 2),
       CLUSTER_RISK_THRESHOLD |-> R(7, 10),
       GROKIPEDIA_BASE_URL |-> [scheme |-> "https://", host |-> <<"grokipedia", "com">>]]
      : t \in {TypicalScores, ExtremeScores}, m \in {3} }

----------------------------------------------------------------------------
(* utils.py: classification, scoring, diversity *)

\* the first category, in iteration order from position i, with a keyword in the host
RECURSIVE KeywordCategory(_, _, _)
KeywordCategory(cats, i, h) ==
    IF i > Len(cats) THEN "other"
    ELSE IF cats[i].category # "other"
            /\ \E k \in Range(cats[i].keywords) : InDomain(k, h)
         THEN cats[i].category
         ELSE KeywordCategory(cats, i + 1, h)

\* suffix.startswith("gov."), on the suffixes of the list
StartsWithGov(suffix) == suffix \in {"gov.uk"}

\* a classify_source_type that looks at the keyword lists before the suffix
ClassifyKeywordFirst(cfg, u) ==
    LET domain == extract_domain(u)
        suffix == Suffix(domain)
        category == KeywordCategory(cfg.SOURCE_CATEGORIES, 1, domain)
    IN  IF category # "other" THEN category
        ELSE IF suffix \in {"edu", "ac.uk", "edu.au"} THEN "academic"
        ELSE IF suffix = "gov" \/ StartsWithGov(suffix) THEN "government"
        ELSE IF suffix = "org" THEN "ngo"
        ELSE "other"

classify_source_type(cfg, u) ==
    LET domain == extract_domain(u)
        suffix == Suffix(domain)
    IN  IF suffix \in {"edu", "ac.uk", "edu.au"} THEN "academic"
        ELSE IF suffix = "gov" \/ StartsWithGov(suffix) THEN "government"
        ELSE IF suffix = "org" THEN "ngo"
        ELSE KeywordCategory(cfg.SOURCE_CATEGORIES, 1, domain)

Suspicious == {"blogspot", "wordpress", "tumblr", "wix"}

Clamp01(x) == RMax(Zero, RMin(One, x))

\* calculate_reliability_score without the final clamp
ScoreUnclamped(cfg, u, source_type) ==
    LET base == Get(cfg.RELIABILITY_SCORES, source_type, R(1, 2))
        boosted == IF Suffix(extract_domain(u)) \in cfg.TRUSTED_DOMAINS
                   THEN RAdd(base, R(1, 10)) ELSE base
    IN  IF \E s \in Suspicious : InDomain(s, extract_domain(u))
        THEN RSub(boosted, R(1, 5)) ELSE boosted

\* a score clamped after the bonus and again after the penalty
ReliabilityClampedTwice(cfg, u, source_type) ==
    LET base == Get(cfg.RELIABILITY_SCORES, source_type, R(1, 2))
        boosted == IF Suffix(extract_domain(u)) \in cfg.TRUSTED_DOMAINS
                   THEN Clamp01(RAdd(base, R(1, 10))) ELSE base
    IN  Clamp01(IF \E s \in Suspicious : InDomain(s, extract_domain(u))
                THEN RSub(boosted, R(1, 5)) ELSE boosted)

calculate_reliability_score(cfg, u, source_type) ==
    Clamp01(ScoreUnclamped(cfg, u, source_type))

\* a score that is the share of unique domains, without the penalty
DiversityWithoutPenalty(domains) ==
    IF domains = <<>> THEN Zero
    ELSE R(Unique([i \in DOMAIN domains |-> NormalizeHost(domains[i])]), Len(domains))

\* domains: a list of hosts (the "domain" values of the citations)
calculate_diversity_score(domains) ==
    IF domains = <<>> THEN Zero
    ELSE LET normalized == [i \in DOMAIN domains |-> NormalizeHost(domains[i])]
             total == Len(domains)
             unique == Unique(normalized)
             diversity == R(unique, total)
             concentration == R(MaxCount(normalized), total)
         IN  RMul(diversity, RSub(One, RMul(concentration, R(1, 2))))

----------------------------------------------------------------------------
(* utils.py: extract_citations_from_text *)

(* A text is a sequence of tokens.  A token is a link in one of the three    *)
(* forms the patterns match, or plain words:                                 *)
(*   markdown  [text](url)                                                   *)
(*   html      <a href="url">text</a>                                        *)
(*   bare      url                                                           *)
(* near says whether the 10 characters before the token's URL contain "]("   *)
(* or "<a": always for a markdown link, for an anchor whose href follows the *)
(* tag name directly, and for a bare URL written right behind such a         *)
(* fragment.  URLs hold no whitespace, quote, bracket or parenthesis, so the *)
(* bare-URL pattern matches the whole URL of every http(s) link.             *)

Punctuation == {".", ",", ";", ":", "!", "?", ")"}

\* str.rstrip(chars) on a sequence of characters
RECURSIVE RStripSeq(_, _)
RStripSeq(t, chars) ==
    IF t # <<>> /\ t[Len(t)] \in chars THEN RStripSeq(SubSeq(t, 1, Len(t) - 1), chars) ELSE t

\* url.rstrip(chars): the characters after the host; a host label ends the strip
RStrip(u, chars) == [u EXCEPT !.tail = RStripSeq(@, chars)]

Citation(t, u, type) == [text |-> t, url |-> u, type |-> type]

NoCitations == [citations |-> <<>>, seen_urls |-> {}]

\* the body of each pass: normalize, skip a seen URL, record the citation
Capture(acc, t, u, type) ==
    LET normalized_url == RStrip(u, Punctuation)
    IN  IF normalized_url \notin acc.seen_urls
        THEN [citations |-> Append(acc.citations, Citation(t, normalized_url, type)),
              seen_urls |-> acc.seen_urls \cup {normalized_url}]
        ELSE acc

\* a pass body that does not look at seen_urls
CaptureUnchecked(acc, t, u, type) ==
    LET normalized_url == RStrip(u, Punctuation)
    IN  [citations |-> Append(acc.citations, Citation(t, normalized_url, type)),
         seen_urls |-> acc.seen_urls \cup {normalized_url}]

\* first pass, from token i on: markdown links with an http(s) URL
RECURSIVE MarkdownPass(_, _, _)
MarkdownPass(acc, txt, i) ==
    IF i > Len(txt) THEN acc
    ELSE MarkdownPass(
            IF txt[i].form = "markdown" /\ StartsWithHttp(txt[i].url)
            THEN Capture(acc, txt[i].text, txt[i].url, "markdown") ELSE acc,
            txt, i + 1)

\* the second pass without the seen_urls test
RECURSIVE HtmlPassUnchecked(_, _, _)
HtmlPassUnchecked(acc, txt, i) ==
    IF i > Len(txt) THEN acc
    ELSE HtmlPassUnchecked(
            IF txt[i].form = "html" /\ StartsWithHttp(txt[i].url)
            THEN CaptureUnchecked(acc, txt[i].text, txt[i].url, "html") ELSE acc,
            txt, i + 1)

\* second pass: HTML anchors with an http(s) URL
RECURSIVE HtmlPass(_, _, _)
HtmlPass(acc, txt, i) ==
    IF i > Len(txt) THEN acc
    ELSE HtmlPass(
            IF txt[i].form = "html" /\ StartsWithHttp(txt[i].url)
            THEN Capture(acc, txt[i].text, txt[i].url, "html") ELSE acc,
            txt, i + 1)

\* third pass: every http(s) URL in the text, unless "](" or "<a" is in the
\* 10 characters before it
RECURSIVE BarePass(_, _, _)
BarePass(acc, txt, i) ==
    IF i > Len(txt) THEN acc
    ELSE BarePass(
            IF txt[i].form # "plain" /\ StartsWithHttp(txt[i].url) /\ ~txt[i].near
            THEN Capture(acc, RStrip(txt[i].url, Punctuation), txt[i].url, "bare") ELSE acc,
            txt, i + 1)

\* the passes in another order: bare URLs first
ExtractBareFirst(txt) ==
    MarkdownPass(HtmlPass(BarePass(NoCitations, txt, 1), txt, 1), txt, 1).citations

extract_citations_from_text(txt) ==
    BarePass(HtmlPass(MarkdownPass(NoCitations, txt, 1), txt, 1), txt, 1).citations

----------------------------------------------------------------------------
(* article_ingester.py: ArticleIngester *)

(* A page, as the ingester and the crawler see it:                           *)
(*   ok          the request succeeded                                       *)
(*   titles      selector |-> text of the first element it matches           *)
(*   containers  selector |-> text of the first element it matches, with the *)
(*               script, style, nav, footer and header subtrees removed, as  *)
(*               a sequence of tokens; <<>> is the empty string              *)
(*   body        the text of <body>, likewise, or None without a <body>      *)
(*   links       the <a href> elements, in document order                    *)
(*   chunks      the payloads of the self.__next_f.push([1,"..."]) scripts:  *)
(*               heading is the text of the "# " line the chunk starts with  *)
(*               (None without one), body the tokens that follow it          *)

\* GROKIPEDIA_BASE_URL in url.lower(): the base URL, scheme included (it is
\* the prefix fetch_by_topic requests), is written in the URL
InUrl(base, u) == u.scheme = base.scheme /\ u.host = base.host

ExcludedPrefixes == {"mailto:", "javascript:", "#", "tel:"}

_is_valid_citation_url(cfg, u) ==
    /\ StartsWithHttp(u)
    /\ ~InUrl(cfg.GROKIPEDIA_BASE_URL, u)
    /\ u.scheme \notin ExcludedPrefixes

\* the record appended for an accepted URL
Enriched(cfg, u, t, type) ==
    [url |-> u,
     text |-> t,
     type |-> type,
     source_type |-> classify_source_type(cfg, u),
     domain |-> normalize_domain(u),
     reliability |-> calculate_reliability_score(cfg, u, classify_source_type(cfg, u))]

Urls(cs) == {cs[i].url : i \in DOMAIN cs}

\* the loop over soup.find_all('a', href=True)
RECURSIVE FromLinks(_, _, _, _)
FromLinks(cfg, cs, links, i) ==
    IF i > Len(links) THEN cs
    ELSE FromLinks(cfg,
                   IF _is_valid_citation_url(cfg, links[i].href)
                   THEN Append(cs, Enriched(cfg, links[i].href, links[i].text, "html"))
                   ELSE cs,
                   links, i + 1)

\* the loop over utils.extract_citations_from_text(content)
RECURSIVE FromText(_, _, _, _)
FromText(cfg, cs, text_citations, i) ==
    IF i > Len(text_citations) THEN cs
    ELSE LET cit == text_citations[i]
         IN  FromText(cfg,
                      IF _is_valid_citation_url(cfg, cit.url) /\ cit.url \notin Urls(cs)
                      THEN Append(cs, Enriched(cfg, cit.url, cit.text, cit.type))
                      ELSE cs,
                      text_citations, i + 1)

\* "Remove duplicates and normalize": keep the first citation of each url.rstrip('/')
RECURSIVE UniqueCitations(_, _, _, _)
UniqueCitations(unique, seen_urls, cs, i) ==
    IF i > Len(cs) THEN unique
    ELSE LET normalized_url == RStrip(cs[i].url, {"/"})
         IN  IF normalized_url \notin seen_urls
             THEN UniqueCitations(Append(unique, cs[i]), seen_urls \cup {normalized_url}, cs, i + 1)
             ELSE UniqueCitations(unique, seen_urls, cs, i + 1)

\* the citations before the final removal of duplicates
Collected(cfg, links, content) ==
    FromText(cfg, FromLinks(cfg, <<>>, links, 1), extract_citations_from_text(content), 1)

\* the URLs classify_source_type, normalize_domain and
\* calculate_reliability_score are called on
Classified(cfg, links, content) == Urls(Collected(cfg, links, content))

_extract_citations(cfg, links, content) ==
    UniqueCitations(<<>>, {}, Collected(cfg, links, content), 1)

TitleSelectors == <<"h1.article-title", "h1", ".title", "title">>

ContentSelectors == <<".article-content", ".main-content", "article", ".content", "main">>

\* the value of the first selector of the list that matches something
RECURSIVE FirstMatch(_, _, _, _)
FirstMatch(selectors, i, found, default) ==
    IF i > Len(selectors) THEN default
    ELSE IF selectors[i] \in DOMAIN found THEN found[selectors[i]]
    ELSE FirstMatch(selectors, i + 1, found, default)

_extract_title(p) == FirstMatch(TitleSelectors, 1, p.titles, "Untitled Article")

_extract_content(p) ==
    FirstMatch(ContentSelectors, 1, p.containers,
               IF p.body # None THEN p.body[1] ELSE <<>>)

_parse_article(cfg, p) ==
    [url |-> p.url,
     title |-> _extract_title(p),
     content |-> _extract_content(p),
     citations |-> _extract_citations(cfg, p.links, _extract_content(p)),
     word_count |-> Len(_extract_content(p)),
     citation_count |-> Len(_extract_citations(cfg, p.links, _extract_content(p)))]

NoArticle == [returned |-> "None"]

\* fetch_article: any exception (the request failing, a classification
\* raising inside _extract_citations) is caught and None returned
fetch_article(cfg, p, raises) ==
    IF ~p.ok \/ \E u \in Classified(cfg, p.links, _extract_content(p)) : u.host \in raises
    THEN NoArticle
    ELSE _parse_article(cfg, p)

----------------------------------------------------------------------------
(* grokipedia_crawler.py *)

IsInternalLink(tok) ==
    /\ tok.form = "markdown"
    /\ tok.url.scheme = "https://"
    /\ tok.url.host = <<"grokipedia", "com">>
    /\ tok.url.tail # <<>> /\ tok.url.tail[1] = "/"

PlainText(label) == [form |-> "plain", text |-> label, url |-> Url("", <<>>, <<>>), near |-> FALSE]

Plain(t) == PlainText(Label(t))

(* The text of a chunk is a sequence of characters, each a one-word name:   *)
(* "backslash", "quote", "apostrophe", "newline", "tab", or a letter.        *)

\* s[i..] starts with the characters of pat
StartsWithAt(s, i, pat) ==
    /\ i + Len(pat) - 1 <= Len(s)
    /\ \A k \in DOMAIN pat : s[i + k - 1] = pat[k]

\* str.replace(old, new): the occurrences of old, left to right, not overlapping
RECURSIVE Replace(_, _, _)
Replace(s, old, new) ==
    IF s = <<>> THEN <<>>
    ELSE IF StartsWithAt(s, 1, old)
         THEN new \o Replace(SubSeq(s, Len(old) + 1, Len(s)), old, new)
         ELSE <<s[1]>> \o Replace(Tail(s), old, new)

\* "Unescape the string": the five replace calls, one after the other
Unescape(s) ==
    LET newlines == Replace(s, <<"backslash", "n">>, <<"newline">>)
        tabs == Replace(newlines, <<"backslash", "t">>, <<"tab">>)
        quotes == Replace(tabs, <<"backslash", "quote">>, <<"quote">>)
        apostrophes == Replace(quotes, <<"backslash", "apostrophe">>, <<"apostrophe">>)
    IN  Replace(apostrophes, <<"backslash", "backslash">>, <<"backslash">>)

\* the clean-up of the chunk: images and [](url) links are dropped, an
\* internal [Text](https://grokipedia.com/...) link becomes its text
RECURSIVE CleanUp(_)
CleanUp(body) ==
    IF body = <<>> THEN <<>>
    ELSE LET tok == body[1]
         IN  IF tok.form = "image" THEN CleanUp(Tail(body))
             ELSE IF IsInternalLink(tok) THEN <<PlainText(tok.text)>> \o CleanUp(Tail(body))
             ELSE <<tok>> \o CleanUp(Tail(body))

HasHeading(chunk) == chunk.heading # None

\* the first chunk that starts with "# " (or has "\n# " in its first 100
\* characters), cleaned; None when there is none.  The markdown is the
\* heading line followed by the body.
extract_markdown_content(p) ==
    LET matches == SelectSeq(p.chunks, HasHeading)
    IN  IF matches = <<>> THEN None
        ELSE Some([heading |-> matches[1].heading[1], body |-> CleanUp(matches[1].body)])

extract_title_from_markdown(markdown) == markdown.heading

\* 'grokipedia.com' in link_url.lower()
MentionsGrokipedia(u) ==
    \E i \in 1..(Len(u.host) - 1) : u.host[i] = "grokipedia" /\ u.host[i + 1] = "com"

\* the citations of fetch_grokipedia_article: every markdown link with an
\* http(s) URL outside grokipedia.com, as written
RECURSIVE MarkdownCitations(_)
MarkdownCitations(body) ==
    IF body = <<>> THEN <<>>
    ELSE LET tok == body[1]
         IN  IF tok.form = "markdown" /\ StartsWithHttp(tok.url) /\ ~MentionsGrokipedia(tok.url)
             THEN <<Citation(tok.text, tok.url, "markdown")>> \o MarkdownCitations(Tail(body))
             ELSE MarkdownCitations(Tail(body))

fetch_grokipedia_article(p) ==
    IF ~p.ok \/ extract_markdown_content(p) = None
    THEN NoArticle
    ELSE LET markdown == extract_markdown_content(p)[1]
         IN  [url |-> p.url,
              title |-> extract_title_from_markdown(markdown),
              content |-> <<Plain(markdown.heading)>> \o markdown.body,
              citations |-> MarkdownCitations(markdown.body),
              word_count |-> 1 + Len(markdown.body),
              citation_count |-> Len(MarkdownCitations(markdown.body))]

----------------------------------------------------------------------------
(* graph_builder.py: CitationGraphBuilder *)

\* nx.DiGraph(): nodes and edges in insertion order
EmptyGraph == [nodes |-> <<>>, edges |-> <<>>]

NodeIds(g) == {g.nodes[i].id : i \in DOMAIN g.nodes}
HasNode(g, id) == id \in NodeIds(g)
ArticleNodesOf(g) == {i \in DOMAIN g.nodes : Get(g.nodes[i], "node_type", "") = "article"}
Node(g, id) == g.nodes[CHOOSE i \in DOMAIN g.nodes : g.nodes[i].id = id]

\* add_node on an id the graph does not hold
AddNode(g, n) == [g EXCEPT !.nodes = Append(@, n)]

\* add_edge: a second edge between the same two nodes replaces the attributes
SetEdge(g, e) ==
    IF \E i \in DOMAIN g.edges : g.edges[i].from = e.from /\ g.edges[i].to = e.to
    THEN [g EXCEPT !.edges =
            [i \in DOMAIN g.edges |->
                IF g.edges[i].from = e.from /\ g.edges[i].to = e.to THEN e ELSE g.edges[i]]]
    ELSE [g EXCEPT !.edges = Append(@, e)]

\* add_edge adds an end node the graph does not hold, without attributes
WithNode(g, id) == IF HasNode(g, id) THEN g ELSE AddNode(g, [id |-> id])

AddEdge(g, e) == SetEdge(WithNode(WithNode(g, e.from), e.to), e)

\* a weight whose boosts are computed from the citation alone
WeightOwnCitation(citation, data) ==
    LET base_weight == Get(citation, "reliability", R(1, 2))
        diversity_boost ==
            RMul(calculate_diversity_score(<<Get(citation, "domain", <<>>)>>), R(1, 5))
        type_boost == RMin(R(1, 10), R(2, 100))
    IN  RAdd(RAdd(base_weight, diversity_boost), type_boost)

\* a weight that takes off 0.2 * (1 - diversity) instead of adding the boost
WeightPenalisingConcentration(citation, data) ==
    LET base_weight == Get(citation, "reliability", R(1, 2))
        cs == data.citations
        all_domains == [i \in DOMAIN cs |-> Get(cs[i], "domain", <<>>)]
        penalty == RMul(RSub(One, calculate_diversity_score(all_domains)), R(1, 5))
        source_types == [i \in DOMAIN cs |-> Get(cs[i], "source_type", "other")]
        type_boost == RMin(R(1, 10), R(Unique(source_types) * 2, 100))
    IN  RAdd(RSub(base_weight, penalty), type_boost)

\* base_weight + diversity_boost + type_boost
Weight(citation, data) ==
    LET base_weight == Get(citation, "reliability", R(1, 2))
        cs == data.citations
        all_domains == [i \in DOMAIN cs |-> Get(cs[i], "domain", <<>>)]
        diversity_boost == RMul(calculate_diversity_score(all_domains), R(1, 5))
        source_types == [i \in DOMAIN cs |-> Get(cs[i], "source_type", "other")]
        type_boost == RMin(R(1, 10), R(Unique(source_types) * 2, 100))
    IN  RAdd(RAdd(base_weight, diversity_boost), type_boost)

\* the weight returned without the final min/max
EdgeWeightUnclamped(citation, data) == Weight(citation, data)

_calculate_edge_weight(citation, data) ==
    RMin(One, RMax(Zero, Weight(citation, data)))

\* the node of a citation
SourceNode(citation) ==
    [id |-> citation.url,
     node_type |-> "source",
     domain |-> Get(citation, "domain", <<>>),
     source_type |-> Get(citation, "source_type", "other"),
     reliability |-> Get(citation, "reliability", R(1, 2))]

\* an iteration that calls add_node without the has_node test, so that the
\* attributes of a later citation replace those of the node
AddCitationLastWins(g, citation, data) ==
    LET source_id == citation.url
        g1 == IF ~HasNode(g, source_id)
              THEN AddNode(g, SourceNode(citation))
              ELSE [g EXCEPT !.nodes =
                      [i \in DOMAIN g.nodes |->
                          IF g.nodes[i].id = source_id THEN SourceNode(citation) ELSE g.nodes[i]]]
    IN  AddEdge(g1, [from |-> data.url, to |-> source_id,
                     weight |-> _calculate_edge_weight(citation, data),
                     citation_text |-> Get(citation, "text", Label(""))])

\* one iteration of the loop over the citations
AddCitation(g, citation, data) ==
    LET source_id == citation.url
        g1 == IF ~HasNode(g, source_id) THEN AddNode(g, SourceNode(citation)) ELSE g
    IN  AddEdge(g1, [from |-> data.url, to |-> source_id,
                     weight |-> _calculate_edge_weight(citation, data),
                     citation_text |-> Get(citation, "text", Label(""))])

\* the loop over the citations; the graph of an iteration is evaluated (it
\* holds the cited node) before the next iteration starts
RECURSIVE AddCitations(_, _, _)
AddCitations(g, i, data) ==
    IF i > Len(data.citations) THEN g
    ELSE LET next == AddCitation(g, data.citations[i], data)
         IN  IF HasNode(next, data.citations[i].url)
             THEN AddCitations(next, i + 1, data)
             ELSE next

build_graph(data) ==
    AddCitations(
        AddNode(EmptyGraph, [id |-> data.url,
                             node_type |-> "article",
                             title |-> Get(data, "title", ""),
                             word_count |-> Get(data, "word_count", 0),
                             citation_count |-> Len(data.citations)]),
        1, data)

----------------------------------------------------------------------------
(* graph_analyzer.py: GraphAnalyzer *)

NoAnalyzer == [exists |-> FALSE]

\* GraphAnalyzer.__init__: the four caches start as None.  The three metric
\* caches are assigned only after a return statement, so they stay None.
NewGraphAnalyzer ==
    [exists |-> TRUE,
     bias_metrics_cache |-> None,
     diversity_metrics_cache |-> None,
     quality_scores_cache |-> None,
     source_nodes_cache |-> None]

IsSource(n) == Get(n, "node_type", "") = "source"

\* [n for n in graph.nodes() if graph.nodes[n].get("node_type") == "source"]
SourceIds(g) ==
    LET src == SelectSeq(g.nodes, IsSource)
    IN  [i \in DOMAIN src |-> src[i].id]

\* a cache that is empty when read again, as an exhausted generator would be
GetSourceNodesExhausted(a, g) ==
    IF a.source_nodes_cache = None THEN SourceIds(g) ELSE <<>>

\* _get_source_nodes: the list it returns; the cache holds it afterwards
_get_source_nodes(a, g) ==
    IF a.source_nodes_cache = None THEN SourceIds(g) ELSE a.source_nodes_cache[1]

Attr(g, ns, field) == [i \in DOMAIN ns |-> Node(g, ns[i])[field]]

\* the first key, in insertion order, with the largest count
TopKey(xs) == xs[CHOOSE i \in DOMAIN xs :
                    /\ Count(xs, xs[i]) = MaxCount(xs)
                    /\ \A j \in 1..(i - 1) : Count(xs, xs[j]) < MaxCount(xs)]

Distribution(xs) == [v \in Range(xs) |-> Count(xs, v)]

\* a concentration score that multiplies the two shares
SourceConcentrationProduct(top_domain_percentage, single_cluster_risk) ==
    RMul(top_domain_percentage, single_cluster_risk)

\* (top_domain_percentage + single_cluster_risk) / 2
SourceConcentration(top_domain_percentage, single_cluster_risk) ==
    RMul(RAdd(top_domain_percentage, single_cluster_risk), R(1, 2))

_calculate_bias_metrics(g, source_nodes) ==
    IF source_nodes = <<>>
    THEN [source_concentration |-> Zero,
          single_cluster_risk |-> Zero,
          top_domain_percentage |-> Zero,
          ideological_cluster_score |-> Zero]
    ELSE LET domains == Attr(g, source_nodes, "domain")
             total == Len(domains)
             top_domain_percentage == R(MaxCount(domains), total)
             source_types == Attr(g, source_nodes, "source_type")
             single_cluster_risk == R(MaxCount(source_types), total)
         IN  [source_concentration |->
                  SourceConcentration(top_domain_percentage, single_cluster_risk),
              single_cluster_risk |-> single_cluster_risk,
              top_domain_percentage |-> top_domain_percentage,
              top_domain |-> TopKey(domains),
              domain_distribution |-> Distribution(domains),
              source_type_distribution |-> Distribution(source_types),
              ideological_cluster_score |-> single_cluster_risk]

RECURSIVE RSum(_)
RSum(xs) == IF xs = <<>> THEN Zero ELSE RAdd(xs[1], RSum(Tail(xs)))

Mean(xs) == RMul(RSum(xs), R(1, Len(xs)))

Variance(xs) ==
    LET avg == Mean(xs)
        sq == [i \in DOMAIN xs |-> RMul(RSub(xs[i], avg), RSub(xs[i], avg))]
    IN  Mean(sq)

_calculate_diversity_metrics(g, source_nodes) ==
    IF source_nodes = <<>>
    THEN [domain_diversity |-> Zero,
          source_type_diversity |-> Zero,
          reliability_diversity |-> Zero,
          overall_diversity |-> Zero]
    ELSE LET domains == Attr(g, source_nodes, "domain")
             source_types == Attr(g, source_nodes, "source_type")
             reliabilities == Attr(g, source_nodes, "reliability")
             domain_diversity == R(Unique(domains), Len(domains))
             source_type_diversity == R(Unique(source_types), Len(source_types))
             reliability_diversity == RMin(One, RMul(Variance(reliabilities), R(4, 1)))
         IN  [domain_diversity |-> domain_diversity,
              source_type_diversity |-> source_type_diversity,
              reliability_diversity |-> reliability_diversity,
              overall_diversity |->
                  RAdd(RAdd(RMul(domain_diversity, R(2, 5)),
                            RMul(source_type_diversity, R(2, 5))),
                       RMul(reliability_diversity, R(1, 5))),
              unique_domains |-> Unique(domains),
              unique_source_types |-> Unique(source_types)]

\* reads the graph's source nodes itself; the diversity metrics it uses are
\* computed from the cached list
_calculate_quality_scores(g, cached_nodes) ==
    LET source_nodes == SourceIds(g)
    IN  IF source_nodes = <<>>
        THEN [citation_quality |-> Zero,
              source_reliability |-> Zero,
              diversity_score |-> Zero,
              overall_quality |-> Zero]
        ELSE LET source_reliability == Mean(Attr(g, source_nodes, "reliability"))
                 diversity_score ==
                     _calculate_diversity_metrics(g, cached_nodes).overall_diversity
                 citation_count_score == RMin(One, R(Len(source_nodes), 10))
                 overall_quality ==
                     RAdd(RAdd(RMul(source_reliability, R(2, 5)),
                               RMul(diversity_score, R(3, 10))),
                          RMul(citation_count_score, R(3, 10)))
             IN  [citation_quality |-> overall_quality,
                  source_reliability |-> source_reliability,
                  diversity_score |-> diversity_score,
                  citation_count_score |-> citation_count_score,
                  overall_quality |-> overall_quality]

Flag(type, severity) == [type |-> type, severity |-> severity]

\* the flag if its condition holds, as a list to concatenate
When(cond, x) == IF cond THEN <<x>> ELSE <<>>

RequiredTypes == <<"academic", "government", "news">>

Low(r) == RLt(r, R(2, 5))

\* red flags whose viewpoint test asks for news sources only
RedFlagsRequiringNews(cfg, g, source_nodes, bias_metrics) ==
    LET low_reliability_sources == SelectSeq(Attr(g, source_nodes, "reliability"), Low)
        source_types == Range(Attr(g, source_nodes, "source_type"))
        missing_types == {t \in {"news"} : t \notin source_types}
    IN  When(Len(source_nodes) < cfg.MIN_CITATIONS,
             Flag("insufficient_citations", "high"))
        \o When(2 * Len(low_reliability_sources) > Len(source_nodes),
                Flag("low_reliability_dominance", "medium"))
        \o When(RLt(cfg.BIAS_THRESHOLD, bias_metrics.source_concentration),
                Flag("high_source_concentration", "high"))
        \o When(RLt(cfg.CLUSTER_RISK_THRESHOLD, bias_metrics.single_cluster_risk),
                Flag("single_cluster_risk", "high"))
        \o When(missing_types # {},
                Flag("missing_viewpoint_diversity", "medium"))

_detect_red_flags(cfg, g, source_nodes, bias_metrics) ==
    LET low_reliability_sources == SelectSeq(Attr(g, source_nodes, "reliability"), Low)
        source_types == Range(Attr(g, source_nodes, "source_type"))
        missing_types == {t \in Range(RequiredTypes) : t \notin source_types}
    IN  When(Len(source_nodes) < cfg.MIN_CITATIONS,
             Flag("insufficient_citations", "high"))
        \o When(2 * Len(low_reliability_sources) > Len(source_nodes),
                Flag("low_reliability_dominance", "medium"))
        \o When(RLt(cfg.BIAS_THRESHOLD, bias_metrics.source_concentration),
                Flag("high_source_concentration", "high"))
        \o When(RLt(cfg.CLUSTER_RISK_THRESHOLD, bias_metrics.single_cluster_risk),
                Flag("single_cluster_risk", "high"))
        \o When(missing_types # {},
                Flag("missing_viewpoint_diversity", "medium"))

Recommendation(template, args) == [template |-> template, args |-> args]

\* recommendations with the reliability test ahead of the diversity test
RecommendationsReordered(g, source_nodes, bias_metrics, diversity_metrics, quality_scores) ==
    LET source_types == Range(Attr(g, source_nodes, "source_type"))
        missing_types ==
            When("academic" \notin source_types, "academic")
            \o When("government" \notin source_types, "government")
    IN  When(RLt(quality_scores.overall_quality, R(3, 5)),
             Recommendation("overall_quality_below_standards", <<>>))
        \o When(RLt(R(1, 2), bias_metrics.source_concentration),
                Recommendation("high_concentration",
                               Get(bias_metrics, "top_domain", <<"one domain">>)))
        \o When(RLt(quality_scores.source_reliability, R(3, 5)),
                Recommendation("low_average_reliability", <<>>))
        \o When(RLt(diversity_metrics.source_type_diversity, R(1, 2)),
                Recommendation("limited_source_type_diversity", <<>>))
        \o When(missing_types # <<>>,
                Recommendation("add_missing_types", missing_types))

_generate_recommendations(g, source_nodes, bias_metrics, diversity_metrics, quality_scores) ==
    LET source_types == Range(Attr(g, source_nodes, "source_type"))
        missing_types ==
            When("academic" \notin source_types, "academic")
            \o When("government" \notin source_types, "government")
    IN  When(RLt(quality_scores.overall_quality, R(3, 5)),
             Recommendation("overall_quality_below_standards", <<>>))
        \o When(RLt(R(1, 2), bias_metrics.source_concentration),
                Recommendation("high_concentration",
                               Get(bias_metrics, "top_domain", <<"one domain">>)))
        \o When(RLt(diversity_metrics.source_type_diversity, R(1, 2)),
                Recommendation("limited_source_type_diversity", <<>>))
        \o When(RLt(quality_scores.source_reliability, R(3, 5)),
                Recommendation("low_average_reliability", <<>>))
        \o When(missing_types # <<>>,
                Recommendation("add_missing_types", missing_types))

KeyError == [raised |-> "KeyError"]

\* analyze(): the dictionary it returns, or the exception it raises when the
\* cached list names a node the graph no longer holds (graph.nodes[n])
analyze(cfg, a, g) ==
    LET source_nodes == _get_source_nodes(a, g)
    IN  IF \E i \in DOMAIN source_nodes : ~HasNode(g, source_nodes[i])
        THEN KeyError
        ELSE LET bias_metrics == _calculate_bias_metrics(g, source_nodes)
                 diversity_metrics == _calculate_diversity_metrics(g, source_nodes)
                 quality_scores == _calculate_quality_scores(g, source_nodes)
             IN  [bias_metrics |-> bias_metrics,
                  diversity_metrics |-> diversity_metrics,
                  red_flags |-> _detect_red_flags(cfg, g, source_nodes, bias_metrics),
                  quality_scores |-> quality_scores,
                  recommendations |->
                      _generate_recommendations(g, source_nodes, bias_metrics,
                                                diversity_metrics, quality_scores)]

----------------------------------------------------------------------------
(* Inputs *)

MaxCitations == 2
MaxMutations == 1

ArticleUrl == Url("https://", <<"grokipedia", "com">>, <<"/", "page">>)
NatureUrl == Url("https://", <<"nature", "com">>, <<"/", "x">>)
SenateUrl == Url("https://", <<"senate", "gov">>, <<"/", "y">>)
BlogUrl == Url("https://", <<"blog", "example", "com">>, <<"/", "z">>)
MitUrl == Url("https://", <<"mit", "edu">>, <<>>)
BlogspotUrl == Url("http://", <<"me", "blogspot", "com">>, <<>>)

\* citation records as build_graph receives them: well-formed ones, one that
\* repeats a URL with other attributes, one that cites the article itself, one
\* with only a URL, and two with a reliability outside [0,1]
CitationPool ==
    { [url |-> NatureUrl, text |-> Label("Study"), type |-> "markdown", source_type |-> "academic",
       domain |-> <<"nature", "com">>, reliability |-> R(9, 10)],
      [url |-> SenateUrl, text |-> Label("Senate"), type |-> "html", source_type |-> "government",
       domain |-> <<"senate", "gov">>, reliability |-> R(19, 20)],
      [url |-> NatureUrl, text |-> Label("again"), type |-> "bare", source_type |-> "news",
       domain |-> <<"news", "nature", "com">>, reliability |-> R(1, 5)],
      [url |-> ArticleUrl, text |-> Label("self"), type |-> "html", source_type |-> "other",
       domain |-> <<"grokipedia", "com">>, reliability |-> R(3, 10)],
      [url |-> BlogUrl],
      [url |-> MitUrl, text |-> Label("MIT"), type |-> "html", source_type |-> "academic",
       domain |-> <<"mit", "edu">>, reliability |-> R(3, 2)],
      [url |-> BlogspotUrl, text |-> Label("blog"), type |-> "bare", source_type |-> "other",
       domain |-> <<"blogspot", "com">>, reliability |-> R(-1, 2)] }

RECURSIVE Lists(_, _)
Lists(S, n) ==
    IF n = 0 THEN {<<>>}
    ELSE Lists(S, n - 1) \cup {Append(l, x) : l \in {m \in Lists(S, n - 1) : Len(m) = n - 1}, x \in S}

CitationLists == Lists(CitationPool, MaxCitations)

NoData == [url |-> ArticleUrl, built |-> FALSE]

ArticleData(cs) ==
    [url |-> ArticleUrl, title |-> "Page", word_count |-> 2,
     citations |-> cs, citation_count |-> Len(cs)]

\* source nodes a holder of the graph may add to it
ExtraNodes ==
    { [id |-> MitUrl, node_type |-> "source", domain |-> <<"mit", "edu">>,
       source_type |-> "academic", reliability |-> R(9, 10)],
      [id |-> BlogspotUrl, node_type |-> "source", domain |-> <<"blogspot", "com">>,
       source_type |-> "other", reliability |-> R(1, 5)] }

ScoreUrls == {NatureUrl, SenateUrl, BlogUrl, MitUrl, BlogspotUrl,
              Url("https://", <<"wordpress", "edu">>, <<>>),
              Url("https://", <<"senate", "edu">>, <<>>),
              Url("https://", <<"nature", "gov.uk">>, <<>>),
              Url("https://", <<"bbc", "org">>, <<>>),
              Url("https://", <<"localhost">>, <<>>)}

ScoreTypes == Categories \cup {"", "unknown"}

NoScore == [called |-> FALSE]
NoMeasure == [called |-> FALSE]

\* the "domain" values of a citation list: registrable domains, a host with a
\* subdomain, and the empty string of a citation without a domain
MaxDomains == 3

DomainPool == {<<"nature", "com">>, <<"news", "nature", "com">>, <<"senate", "gov">>, <<>>}
NoResults == [called |-> FALSE]

\* articles with many sources: the citation list has fewer than MaxSources
\* citations, all with distinct URLs
MaxSources == 11

SourceNames == <<"a", "b", "c", "d", "e", "f", "g", "h", "i", "j", "k", "l", "m">>

CategoryOrder == <<"academic", "government", "ngo", "news", "other">>

SourceUrl(i) == Url("https://", <<"nature", "com">>, <<"/", SourceNames[i]>>)

\* the lists of n categories, up to the order of the citations
RECURSIVE CategoryLists(_)
CategoryLists(n) ==
    IF n = 0 THEN {<<>>}
    ELSE UNION {{Append(l, c) : c \in {k \in DOMAIN CategoryOrder : l = <<>> \/ l[Len(l)] <= k}} :
                    l \in CategoryLists(n - 1)}

\* n citations with the categories cats; all are of one domain, except the
\* odd-th, and each has the base score of its category
SourceCitations(cfg, cats, odd) ==
    [i \in DOMAIN cats |->
        [url |-> SourceUrl(i), text |-> Label("ref"), type |-> "html",
         source_type |-> CategoryOrder[cats[i]],
         domain |-> IF i = odd THEN <<"senate", "gov">> ELSE <<"nature", "com">>,
         reliability |-> cfg.RELIABILITY_SCORES[CategoryOrder[cats[i]]]]]

----------------------------------------------------------------------------
(* Inputs of the extraction *)

MaxTokens == 3
MaxChars == 3

NoPayload == [called |-> FALSE]

\* the characters of the texts a chunk carries
Characters == {"newline", "tab", "quote", "backslash", "n", "t", "a"}

\* the chunk as the page carries it: newline as \n, tab as \t, quote as \",
\* backslash as \\
RECURSIVE Escaped(_)
Escaped(s) ==
    IF s = <<>> THEN <<>>
    ELSE (CASE s[1] = "newline" -> <<"backslash", "n">>
            [] s[1] = "tab" -> <<"backslash", "t">>
            [] s[1] = "quote" -> <<"backslash", "quote">>
            [] s[1] = "backslash" -> <<"backslash", "backslash">>
            [] OTHER -> <<s[1]>>)
         \o Escaped(Tail(s))
MaxLinks == 2
MaxContent == 2
MaxChunkBody == 2

NatureDotUrl == Url("https://", <<"nature", "com">>, <<"/", "x", ".">>)
NatureSlashUrl == Url("https://", <<"nature", "com">>, <<"/", "x", "/">>)
RelativeUrl == Url("", <<>>, <<"/", "wiki">>)
BrokenUrl == Url("https://", <<"xn--broken", "com">>, <<>>)

Tok(form, t, u, near) == [form |-> form, text |-> Label(t), url |-> u, near |-> near]

\* links of the three forms whose URLs coincide, differ by a trailing "." or
\* "/", or differ altogether; an anchor with attributes before its href; a
\* bare URL right behind a link fragment; a relative link; plain words
TextTokens ==
    {Tok("markdown", "Study", u, TRUE) : u \in {NatureUrl, NatureDotUrl, RelativeUrl}}
    \cup {Tok("html", "Senate", NatureUrl, TRUE), Tok("html", "Senate", SenateUrl, FALSE)}
    \cup {Tok("bare", "", u, FALSE) : u \in {NatureUrl, NatureSlashUrl, BlogUrl}}
    \cup {Tok("bare", "", SenateUrl, TRUE)}
    \cup {Plain("and")}

Texts == Lists(TextTokens, MaxTokens)

Link(u, t) == [href |-> u, text |-> Label(t)]

\* the article's own site, linked over http
HttpArticleUrl == Url("http://", <<"grokipedia", "com">>, <<"/", "page">>)

LinkPool ==
    {Link(u, "ref") :
        u \in {NatureUrl, NatureDotUrl, ArticleUrl, HttpArticleUrl, RelativeUrl, BrokenUrl}}

ContentTokens ==
    {Tok("markdown", "Study", SenateUrl, TRUE), Tok("bare", "", NatureSlashUrl, FALSE)}

ChunkTokens ==
    {Tok("markdown", "Study", NatureUrl, TRUE),
     Tok("markdown", "Study", NatureSlashUrl, TRUE),
     Tok("markdown", "Other page", ArticleUrl, TRUE),
     Tok("image", "alt", NatureUrl, TRUE),
     Tok("bare", "", SenateUrl, FALSE)}

Chunk(heading, body) == [heading |-> heading, body |-> body]

HeadingChunk == Chunk(Some("Chunk title"), <<Plain("payload")>>)

PageOf(titles, containers, body, links, chunks) ==
    [ok |-> TRUE, url |-> ArticleUrl, titles |-> titles, containers |-> containers,
     body |-> body, links |-> links, chunks |-> chunks]

PageTitles == ("h1" :> "Heading") @@ ("title" :> "Tab title")

\* pages that vary in what the structured selectors find
IngesterPages ==
    {PageOf(PageTitles, (".content" :> c) @@ ("main" :> <<Plain("menu")>>), Some(c), ls, ch) :
        c \in Lists(ContentTokens, MaxContent),
        ls \in Lists(LinkPool, MaxLinks),
        ch \in {<<>>, <<HeadingChunk>>}}
    \cup {PageOf(PageTitles, <<>>, b, ls, ch) :
            b \in {None} \cup {Some(c) : c \in Lists(ContentTokens, MaxContent)},
            ls \in Lists(LinkPool, MaxLinks),
            ch \in {<<>>, <<HeadingChunk>>}}

\* pages that vary in their embedded chunks
CrawlerPages ==
    LET chunks == {Chunk(h, b) : h \in {None, Some("Chunk title")},
                                 b \in Lists(ChunkTokens, MaxChunkBody)}
    IN  {PageOf(<<>>, <<>>, b, <<>>, ch) :
            b \in {Some(<<>>), Some(<<Plain("words")>>)},
            ch \in {<<>>} \cup {<<c>> : c \in chunks}
                   \cup {<<Chunk(None, <<Plain("other")>>), c>> :
                            c \in {d \in chunks : d.heading # None}}}

Unreachable == [PageOf(<<>>, <<>>, None, <<>>, <<>>) EXCEPT !.ok = FALSE]

Pages == IngesterPages \cup CrawlerPages \cup {Unreachable}

RaisingChoices == {{}, {BrokenUrl.host}}

----------------------------------------------------------------------------
(* Inputs of the parallel runs *)

MaxParallelCitations == 1

Threads == {1, 2}

OtherArticleUrl == Url("https://", <<"grokipedia", "com">>, <<"/", "other">>)

ArticleUrls == <<ArticleUrl, OtherArticleUrl>>

ParallelPool == {c \in CitationPool : c.url \in {NatureUrl, SenateUrl} /\ c.type # "bare"}

ParallelLists == Lists(ParallelPool, MaxParallelCitations)

\* CitationGraphBuilder.__init__: self.graph = nx.DiGraph(), one object per builder
NoObjects == [b \in Threads |-> EmptyGraph]

NewBuilders == [b \in Threads |-> b]

Idle == [pc |-> "idle"]

----------------------------------------------------------------------------
(* State machine: the builder, its graph, and an analyzer on that graph *)

\* main() has not been called
NoRun == [pc |-> "main", steps |-> <<>>, status |-> None]

Init ==
    /\ config \in Configs
    /\ article_data = NoData
    /\ graph = EmptyGraph
    /\ analyzer = NoAnalyzer
    /\ results = NoResults
    /\ history = <<>>
    /\ mutations = 0
    /\ score = NoScore
    /\ measure = NoMeasure
    /\ text = <<>>
    /\ citations = <<>>
    /\ page = Unreachable
    /\ raising = {}
    /\ entry = "none"
    /\ article = NoArticle
    /\ payload = NoPayload
    /\ objects = NoObjects
    /\ builders = NewBuilders
    /\ threads = [t \in Threads |-> Idle]
    /\ run = NoRun

\* graph = CitationGraphBuilder().build_graph(article_data), once per run
BuildGraph ==
    /\ article_data = NoData
    /\ score = NoScore
    /\ measure = NoMeasure
    /\ \E cs \in CitationLists :
        /\ article_data' = ArticleData(cs)
        /\ graph' = build_graph(ArticleData(cs))
        /\ analyzer' = NoAnalyzer
        /\ results' = NoResults
        /\ history' = <<>>
        /\ mutations' = 0
        /\ UNCHANGED <<cliVars, config, score, measure, textVars, parVars>>

\* utils.classify_source_type(url) and
\* utils.calculate_reliability_score(url, source_type), called on their own
Score ==
    /\ article_data = NoData
    /\ score = NoScore
    /\ measure = NoMeasure
    /\ \E u \in ScoreUrls, t \in ScoreTypes :
        /\ score' = [called |-> TRUE, url |-> u, source_type |-> t,
                     category |-> classify_source_type(config, u),
                     value |-> calculate_reliability_score(config, u, t)]
        /\ UNCHANGED <<cliVars, config, article_data, graph, analyzer, results, history, mutations, measure, textVars, parVars>>

\* utils.calculate_diversity_score(domains), called on its own
Diversity ==
    /\ article_data = NoData
    /\ score = NoScore
    /\ measure = NoMeasure
    /\ \E domains \in Lists(DomainPool, MaxDomains) :
        /\ measure' = [called |-> TRUE, domains |-> domains,
                         value |-> calculate_diversity_score(domains)]
        /\ UNCHANGED <<cliVars, config, article_data, graph, analyzer, results, history, mutations, score, textVars, parVars>>

\* analyzer = GraphAnalyzer(graph)
NewAnalyzer ==
    /\ analyzer' = NewGraphAnalyzer
    /\ results' = NoResults
    /\ history' = <<>>
    /\ UNCHANGED <<cliVars, config, article_data, graph, mutations, score, measure, textVars, parVars>>

LastTwo(h) == IF Len(h) > 2 THEN SubSeq(h, Len(h) - 1, Len(h)) ELSE h

\* an analyze() that writes the clamped reliability back to the source nodes
AnalyzeClamping ==
    /\ analyzer.exists
    /\ results' = analyze(config, analyzer, graph)
    /\ history' = LastTwo(Append(history, results'))
    /\ analyzer' = [analyzer EXCEPT
                      !.source_nodes_cache = Some(_get_source_nodes(analyzer, graph))]
    /\ graph' = [graph EXCEPT !.nodes =
                    [i \in DOMAIN @ |->
                        IF IsSource(@[i]) THEN [@[i] EXCEPT !.reliability = Clamp01(@)] ELSE @[i]]]
    /\ UNCHANGED <<cliVars, config, article_data, mutations, score, measure, textVars, parVars>>

\* analyzer.analyze()
Analyze ==
    /\ analyzer.exists
    /\ results' = analyze(config, analyzer, graph)
    /\ history' = LastTwo(Append(history, results'))
    /\ analyzer' = [analyzer EXCEPT
                      !.source_nodes_cache = Some(_get_source_nodes(analyzer, graph))]
    /\ UNCHANGED <<cliVars, config, article_data, graph, mutations, score, measure, textVars, parVars>>

\* the holder of the graph adds a source node and its edge: graph.add_node, graph.add_edge
AddSourceNode ==
    /\ mutations < MaxMutations
    /\ HasNode(graph, ArticleUrl)
    /\ \E n \in ExtraNodes :
        /\ ~HasNode(graph, n.id)
        /\ graph' = AddEdge(AddNode(graph, n),
                            [from |-> ArticleUrl, to |-> n.id,
                             weight |-> n.reliability, citation_text |-> Label("")])
        /\ history' = <<>>
        /\ mutations' = mutations + 1
        /\ UNCHANGED <<cliVars, config, article_data, analyzer, results, score, measure, textVars, parVars>>

\* graph.remove_node(id): the node and the edges at it
RemoveNode(g, id) ==
    LET keepN(n) == n.id # id
        keepE(e) == e.from # id /\ e.to # id
    IN  [nodes |-> SelectSeq(g.nodes, keepN), edges |-> SelectSeq(g.edges, keepE)]

RemoveSourceNode ==
    /\ mutations < MaxMutations
    /\ \E id \in Range(SourceIds(graph)) :
        /\ graph' = RemoveNode(graph, id)
        /\ history' = <<>>
        /\ mutations' = mutations + 1
        /\ UNCHANGED <<cliVars, config, article_data, analyzer, results, score, measure, textVars, parVars>>

Next == BuildGraph \/ NewAnalyzer \/ Analyze \/ AddSourceNode \/ RemoveSourceNode

Spec == Init /\ [][Next]_vars

NextBuild == BuildGraph \/ Score \/ Diversity

SpecBuild == Init /\ [][NextBuild]_vars

----------------------------------------------------------------------------
(* State machine: one analysis of the graph of an article with many sources *)

\* graph = build_graph(article_data); analyzer = GraphAnalyzer(graph)
InitSources ==
    /\ config \in {cfg \in Configs : cfg.RELIABILITY_SCORES = TypicalScores}
    /\ \E n \in {MaxSources - 1} :
          \E cats \in CategoryLists(n), odd \in {1, n} :
              /\ article_data = ArticleData(SourceCitations(config, cats, odd))
              /\ graph = build_graph(article_data)
    /\ analyzer = NewGraphAnalyzer
    /\ results = NoResults
    /\ history = <<>>
    /\ mutations = 0
    /\ score = NoScore
    /\ measure = NoMeasure
    /\ text = <<>>
    /\ citations = <<>>
    /\ page = Unreachable
    /\ raising = {}
    /\ entry = "none"
    /\ article = NoArticle
    /\ payload = NoPayload
    /\ objects = NoObjects
    /\ builders = NewBuilders
    /\ threads = [t \in Threads |-> Idle]
    /\ run = NoRun

AnalyzeOnce == results = NoResults /\ Analyze

SpecSources == InitSources /\ [][AnalyzeOnce]_vars

\* the many-source graphs with sources of all five categories
InitSpread ==
    /\ InitSources
    /\ {graph.nodes[i].source_type : i \in DOMAIN graph.nodes \ ArticleNodesOf(graph)} = Categories

\* the holder of such a graph analyzes it and adds source nodes to it, in any order
NextGrown == Analyze \/ AddSourceNode

SpecGrown == InitSpread /\ [][NextGrown]_vars

----------------------------------------------------------------------------
(* State machine: one call of an extraction entry point *)

\* utils.extract_citations_from_text(text)
ExtractCitationsFromText ==
    /\ entry = "none"
    /\ \E t \in Texts :
        /\ entry' = "extract_citations_from_text"
        /\ text' = t
        /\ citations' = extract_citations_from_text(t)
        /\ UNCHANGED <<cliVars, config, graphVars, page, raising, article, payload, parVars>>

\* ArticleIngester().fetch_article(url), the call main() makes
FetchArticle ==
    /\ entry = "none"
    /\ \E p \in Pages, r \in RaisingChoices :
        /\ entry' = "fetch_article"
        /\ page' = p
        /\ raising' = r
        /\ article' = fetch_article(config, p, r)
        /\ UNCHANGED <<cliVars, config, graphVars, text, citations, payload, parVars>>

\* grokipedia_crawler.fetch_grokipedia_article(url), the call the API server makes
FetchGrokipediaArticle ==
    /\ entry = "none"
    /\ \E p \in Pages :
        /\ entry' = "fetch_grokipedia_article"
        /\ page' = p
        /\ article' = fetch_grokipedia_article(p)
        /\ UNCHANGED <<cliVars, config, graphVars, text, citations, raising, payload, parVars>>

\* extract_markdown_content unescapes the text of the chunk it selected
UnescapeChunk ==
    /\ entry = "none"
    /\ \E s \in Lists(Characters, MaxChars) :
        /\ entry' = "extract_markdown_content"
        /\ payload' = [called |-> TRUE, text |-> s, chunk |-> Escaped(s),
                       markdown |-> Unescape(Escaped(s))]
        /\ UNCHANGED <<cliVars, config, graphVars, text, citations, page, raising, article, parVars>>

NextText ==
    ExtractCitationsFromText \/ FetchArticle \/ FetchGrokipediaArticle \/ UnescapeChunk

SpecText == Init /\ [][NextText]_vars

----------------------------------------------------------------------------
(* State machine: two articles processed in parallel, each run a thread    *)
(* calling build_graph and then analyze; a step is one statement of        *)
(* build_graph, which reads self.graph anew                                *)

\* the object self.graph of the thread's builder refers to
Self(t) == builders[threads[t].builder]

Goto(t, pc) == [threads EXCEPT ![t].pc = pc]

\* the runs start, on one shared builder or on a builder each
StartRuns ==
    /\ \A t \in Threads : threads[t].pc = "idle"
    /\ \E shared \in BOOLEAN, cs \in [Threads -> ParallelLists] :
          threads' = [t \in Threads |->
                        [pc |-> "new",
                         builder |-> IF shared THEN 1 ELSE t,
                         data |-> [ArticleData(cs[t]) EXCEPT !.url = ArticleUrls[t]],
                         i |-> 1,
                         graph |-> 0,
                         analysis |-> NoResults]]
    /\ UNCHANGED <<cliVars, config, graphVars, textVars, objects, builders>>

\* self.graph = nx.DiGraph()
NewGraph(t) ==
    /\ threads[t].pc = "new"
    /\ objects' = Append(objects, EmptyGraph)
    /\ builders' = [builders EXCEPT ![threads[t].builder] = Len(objects) + 1]
    /\ threads' = Goto(t, "article")
    /\ UNCHANGED <<cliVars, config, graphVars, textVars>>

\* self.graph.add_node(article_id, node_type="article", ...)
AddArticleNode(t) ==
    LET data == threads[t].data
    IN  /\ threads[t].pc = "article"
        /\ objects' = [objects EXCEPT ![Self(t)] =
                          AddNode(@, [id |-> data.url,
                                      node_type |-> "article",
                                      title |-> Get(data, "title", ""),
                                      word_count |-> Get(data, "word_count", 0),
                                      citation_count |-> Len(data.citations)])]
        /\ threads' = Goto(t, IF data.citations = <<>> THEN "return" ELSE "node")
        /\ UNCHANGED <<cliVars, config, graphVars, textVars, builders>>

\* if not self.graph.has_node(source_id): self.graph.add_node(source_id, ...)
AddSourceNodeStep(t) ==
    LET citation == threads[t].data.citations[threads[t].i]
    IN  /\ threads[t].pc = "node"
        /\ objects' = [objects EXCEPT ![Self(t)] =
                          IF HasNode(@, citation.url) THEN @
                          ELSE AddNode(@, SourceNode(citation))]
        /\ threads' = Goto(t, "edge")
        /\ UNCHANGED <<cliVars, config, graphVars, textVars, builders>>

\* weight = self._calculate_edge_weight(...); self.graph.add_edge(article_id, source_id, ...)
AddEdgeStep(t) ==
    LET data == threads[t].data
        citation == data.citations[threads[t].i]
    IN  /\ threads[t].pc = "edge"
        /\ objects' = [objects EXCEPT ![Self(t)] =
                          AddEdge(@, [from |-> data.url, to |-> citation.url,
                                      weight |-> _calculate_edge_weight(citation, data),
                                      citation_text |-> Get(citation, "text", Label(""))])]
        /\ threads' = [threads EXCEPT
                          ![t].i = @ + 1,
                          ![t].pc = IF threads[t].i < Len(data.citations) THEN "node" ELSE "return"]
        /\ UNCHANGED <<cliVars, config, graphVars, textVars, builders>>

\* return self.graph
ReturnGraph(t) ==
    /\ threads[t].pc = "return"
    /\ threads' = [threads EXCEPT ![t].graph = Self(t), ![t].pc = "analyze"]
    /\ UNCHANGED <<cliVars, config, graphVars, textVars, objects, builders>>

\* GraphAnalyzer(graph).analyze()
AnalyzeGraph(t) ==
    /\ threads[t].pc = "analyze"
    /\ threads' = [threads EXCEPT
                      ![t].analysis = analyze(config, NewGraphAnalyzer, objects[threads[t].graph]),
                      ![t].pc = "done"]
    /\ UNCHANGED <<cliVars, config, graphVars, textVars, objects, builders>>

NextParallel ==
    \/ StartRuns
    \/ \E t \in Threads : NewGraph(t)
    \/ \E t \in Threads : AddArticleNode(t)
    \/ \E t \in Threads : AddSourceNodeStep(t)
    \/ \E t \in Threads : AddEdgeStep(t)
    \/ \E t \in Threads : ReturnGraph(t)
    \/ \E t \in Threads : AnalyzeGraph(t)

SpecParallel == Init /\ [][NextParallel]_vars

----------------------------------------------------------------------------
(* State machine: one CitationGraphBuilder whose build_graph is called for  *)
(* one article after another; get_graph_stats and get_source_clusters read  *)
(* the graph the builder holds                                              *)

MaxBuilds == 3

\* build_graph that adds to the graph the builder already holds
BuildGraphInPlace(objs, held, data) ==
    [objects |-> [objs EXCEPT ![held] =
                    AddCitations(
                        WithNode(@, data.url),
                        1, data)],
     graph |-> held]

\* build_graph on a builder: self.graph = nx.DiGraph() is a new object, which
\* the builder holds and the call returns
BuildGraphOn(objs, held, data) ==
    [objects |-> Append(objs, build_graph(data)),
     graph |-> Len(objs) + 1]

get_graph_stats(g) ==
    IF g.nodes = <<>> THEN <<>>
    ELSE LET nodes == g.nodes
             edges == g.edges
             article_nodes == SelectSeq(nodes, LAMBDA n : Get(n, "node_type", None) = "article")
             source_nodes == SelectSeq(nodes, LAMBDA n : Get(n, "node_type", None) = "source")
             source_types == [i \in DOMAIN source_nodes |-> Get(source_nodes[i], "source_type", "other")]
             source_type_counts == [k \in Range(source_types) |-> Count(source_types, k)]
             reliabilities == [i \in DOMAIN source_nodes |-> Get(source_nodes[i], "reliability", R(1, 2))]
             avg_reliability == IF reliabilities # <<>> THEN Mean(reliabilities) ELSE Zero
         IN  [total_nodes |-> Len(nodes),
              article_nodes |-> Len(article_nodes),
              source_nodes |-> Len(source_nodes),
              total_edges |-> Len(edges),
              source_type_distribution |-> source_type_counts,
              average_reliability |-> avg_reliability,
              graph_density |-> IF Len(nodes) > 1
                                THEN R(Len(edges), Len(nodes) * (Len(nodes) - 1))
                                ELSE Zero]

\* clusters[f"{source_type}:{domain}"], the nodes in the order of the graph
get_source_clusters(g) ==
    LET source_nodes == SelectSeq(g.nodes, LAMBDA n : Get(n, "node_type", None) = "source")
        cluster_key(n) == <<Get(n, "source_type", "other"), Get(n, "domain", "unknown")>>
        keys == {cluster_key(source_nodes[i]) : i \in DOMAIN source_nodes}
        members(k) == SelectSeq(source_nodes, LAMBDA n : cluster_key(n) = k)
    IN  [k \in keys |-> [i \in DOMAIN members(k) |-> members(k)[i].id]]

\* the number of build_graph calls made on the builder
Builds == Len(objects) - Len(NoObjects)

\* graph = builder.build_graph(article_data), on the builder of the run
Rebuild ==
    /\ Builds < MaxBuilds
    /\ \E cs \in ParallelLists, url \in Range(ArticleUrls) :
          LET data == [ArticleData(cs) EXCEPT !.url = url]
              call == BuildGraphOn(objects, builders[1], data)
          IN  /\ objects' = call.objects
              /\ builders' = [builders EXCEPT ![1] = call.graph]
              /\ article_data' = data
    /\ UNCHANGED <<cliVars, config, graph, analyzer, results, history, mutations, score, measure,
                   textVars, threads>>

NextRebuild == Rebuild

SpecRebuild == Init /\ [][NextRebuild]_vars

----------------------------------------------------------------------------
(* State machine: the command-line run of main(), a step per numbered step  *)
(* of the function; an option is drawn where main() first reads it          *)

Formats == {"json", "markdown", "both"}

\* what the xAI side does during step 4: whether GrokIntegration() is built
\* (the key is set and the client constructed), and what the three generate_
\* methods return; each catches the exceptions of its request itself and then
\* returns [] or the failure text
GrokOutcomes ==
    [constructed : BOOLEAN,
     suggestions : {<<>>, <<"suggestion">>},
     rewrites : {<<>>, <<"rewrite">>},
     explanation : {"Explanation generation failed."}]

\* the pages the ingester may be served; it does not read the embedded chunks
MainPages == {p \in IngesterPages : p.chunks = <<>>} \cup {Unreachable}

\* a step 4 in which the exception is raised after the lists were assigned
GrokStepRaisingLate(skip_grok, xai) ==
    IF ~skip_grok
    THEN [citation_suggestions |-> xai.suggestions,
          rewrites |-> xai.rewrites,
          explanation |-> IF xai.constructed THEN xai.explanation
                          ELSE "Grok API integration unavailable. See analysis results below.",
          grok |-> IF xai.constructed THEN "succeeded" ELSE "raised"]
    ELSE [citation_suggestions |-> <<>>,
          rewrites |-> <<>>,
          explanation |-> "Analysis completed without AI suggestions. See recommendations below.",
          grok |-> "skipped"]

\* step 4: the three locals after it, and how the Grok part went
GrokStep(skip_grok, xai) ==
    IF ~skip_grok
    THEN IF xai.constructed
         THEN [citation_suggestions |-> xai.suggestions,
               rewrites |-> xai.rewrites,
               explanation |-> xai.explanation,
               grok |-> "succeeded"]
         ELSE [citation_suggestions |-> <<>>,
               rewrites |-> <<>>,
               explanation |-> "Grok API integration unavailable. See analysis results below.",
               grok |-> "raised"]
    ELSE [citation_suggestions |-> <<>>,
          rewrites |-> <<>>,
          explanation |-> "Analysis completed without AI suggestions. See recommendations below.",
          grok |-> "skipped"]

Exit(r, code) == [r EXCEPT !.pc = "exit", !.status = Some(code)]

Step(r, name, pc) == [r EXCEPT !.steps = Append(@, name), !.pc = pc]

\* main(url, topic, ...): sys.exit(1) when neither --url nor --topic is given
Main ==
    /\ run.pc = "main"
    /\ \E given \in BOOLEAN :
          run' = IF ~given THEN Exit(run, 1) ELSE [run EXCEPT !.pc = "ingest"]
    /\ UNCHANGED <<config, graphVars, textVars, parVars>>

\* Step 1: article_data = ingester.fetch_article(url); sys.exit(1) on None
Ingest ==
    /\ run.pc = "ingest"
    /\ \E p \in MainPages, r \in RaisingChoices :
          LET fetched == fetch_article(config, p, r)
          IN  /\ article' = fetched
              /\ article_data' = IF fetched = NoArticle THEN article_data ELSE fetched
              /\ run' = IF fetched = NoArticle
                        THEN Exit(Step(run, "ingest", "exit"), 1)
                        ELSE Step(run, "ingest", "build")
    /\ UNCHANGED <<config, graph, analyzer, results, history, mutations, score, measure,
                   text, citations, page, raising, entry, payload, parVars>>

\* Step 2: graph = CitationGraphBuilder().build_graph(article_data); get_graph_stats()
Build ==
    /\ run.pc = "build"
    /\ LET built == build_graph(article_data)
       IN  /\ graph' = built
           /\ run' = Step(run, "build", "analyze") @@ [stats |-> get_graph_stats(built)]
    /\ UNCHANGED <<config, article_data, analyzer, results, history, mutations, score, measure,
                   textVars, parVars>>

\* Step 3: analysis_results = GraphAnalyzer(graph).analyze(); an exception of
\* analyze() ends the run with a traceback
AnalyzeResults ==
    /\ run.pc = "analyze"
    /\ LET analysis_results == analyze(config, NewGraphAnalyzer, graph)
       IN  /\ results' = analysis_results
           /\ history' = <<analysis_results>>
           /\ run' = IF analysis_results = KeyError
                     THEN Exit(Step(run, "analyze", "exit"), 1)
                     ELSE Step(run, "analyze", "grok")
    /\ analyzer' = [NewGraphAnalyzer EXCEPT
                      !.source_nodes_cache = Some(_get_source_nodes(NewGraphAnalyzer, graph))]
    /\ UNCHANGED <<config, article_data, graph, mutations, score, measure, textVars, parVars>>

\* Step 4: the Grok suggestions, made, failed or skipped
Suggest ==
    /\ run.pc = "grok"
    /\ \E skip_grok \in BOOLEAN, xai \in GrokOutcomes :
          run' = Step(run, "grok", "output") @@ GrokStep(skip_grok, xai)
    /\ UNCHANGED <<config, graphVars, textVars, parVars>>

\* Step 5: the output files of the format asked for, each written from the
\* article, the analysis results, the suggestions, the rewrites and the explanation
GenerateOutput ==
    /\ run.pc = "output"
    /\ \E format \in Formats, viz \in BOOLEAN :
          LET written == [article_data |-> article_data,
                          analysis_results |-> results,
                          citation_suggestions |-> run.citation_suggestions,
                          rewrites |-> run.rewrites,
                          explanation |-> run.explanation]
              outputs == (IF format \in {"json", "both"} THEN <<"edit_proposal">> ELSE <<>>)
                         \o (IF format \in {"markdown", "both"} THEN <<"summary_report">> ELSE <<>>)
                         \o (IF viz THEN <<"visualization">> ELSE <<>>)
          IN  run' = [Step(run, "output", "done") EXCEPT !.status = Some(0)]
                     @@ [written |-> written, outputs |-> outputs]
    /\ UNCHANGED <<config, graphVars, textVars, parVars>>

NextMain == Main \/ Ingest \/ Build \/ AnalyzeResults \/ Suggest \/ GenerateOutput

SpecMain == Init /\ [][NextMain]_vars

\* main() runs on: a step after the ingestion that can be taken is taken.  For
\* steps 2 and 3 the condition is weak fairness with ENABLED written out: the
\* steps are enabled exactly where main() stands before them.
SpecMainFair ==
    /\ SpecMain
    /\ WF_vars(Suggest \/ GenerateOutput)
    /\ \/ []<>(run.pc \notin {"build", "analyze"})
       \/ []<><<Build \/ AnalyzeResults>>_vars

----------------------------------------------------------------------------
(* Properties of the graph builder and the analyzer *)

Built == article_data # NoData

Edges(g) == Range(g.edges)

\* C1: in every graph build_graph returns, the number of source nodes equals
\* the number of edges, every edge goes from the article node to a source
\* node, and every source node has an incoming edge -- also when the list
\* repeats a URL or cites the article's own URL.
C1_SourceCountEqualsEdgeCount ==
    Built =>
        /\ Len(SourceIds(graph)) = Len(graph.edges)
        /\ \A e \in Edges(graph) :
              /\ e.from = article_data.url
              /\ HasNode(graph, e.to)
              /\ Node(graph, e.to).node_type = "source"
        /\ \A s \in Range(SourceIds(graph)) : \E e \in Edges(graph) : e.to = s

\* C3: two analyze() calls on one analyzer with the graph unmodified in
\* between return the same value (metrics, red flags and recommendations).
C3_AnalyzeIdempotent ==
    Len(history) = 2 => history[1] = history[2]

\* C3 witness: a second call that read the source-node cache of the first, on
\* a graph with at least two source nodes
C3_Witness ==
    /\ Len(history) = 2
    /\ "bias_metrics" \in DOMAIN results
    /\ analyzer.source_nodes_cache # None
    /\ Len(analyzer.source_nodes_cache[1]) >= 2

AllZero(m, keys) == \A k \in keys : m[k] = Zero

\* C4: on a graph with zero source nodes analyze() completes without an
\* error, every numeric bias, diversity and quality metric is 0.0, and the
\* red flags contain insufficient_citations with severity high.
C4_ZeroSourcesZeroMetrics ==
    (history # <<>> /\ SourceIds(graph) = <<>>) =>
        /\ results # KeyError
        /\ "bias_metrics" \in DOMAIN results
        /\ AllZero(results.bias_metrics, DOMAIN results.bias_metrics)
        /\ AllZero(results.diversity_metrics, DOMAIN results.diversity_metrics)
        /\ AllZero(results.quality_scores, DOMAIN results.quality_scores)
        /\ Flag("insufficient_citations", "high") \in Range(results.red_flags)

\* C8: calculate_reliability_score returns a value in [0,1] for every URL
\* and category, and every edge weight of a built graph is in [0,1].
C8_ScoresAndWeightsInUnitInterval ==
    /\ score.called => InUnit(score.value)
    /\ \A e \in Edges(graph) : InUnit(e.weight)

\* C8 witness: a built graph holding one citation whose unclamped weight is
\* above 1 and one whose unclamped weight is below 0
C8_Witness ==
    /\ Built
    /\ \E c \in Range(article_data.citations) :
          RLt(One, Weight(c, article_data))
    /\ \E c \in Range(article_data.citations) :
          RLt(Weight(c, article_data), Zero)

----------------------------------------------------------------------------
(* Properties of the extraction *)

LinkForms == <<"markdown", "html", "bare">>

Precedence(form) == CHOOSE i \in DOMAIN LinkForms : LinkForms[i] = form

IsLink(tok) == tok.form \in Range(LinkForms)

\* the links of a text, in textual order
LinksOf(txt) == SelectSeq(txt, IsLink)

Min(S) == CHOOSE m \in S : \A x \in S : m <= x

\* the positions where the http(s) URL u (trailing punctuation aside) is written
Occurrences(txt, u) ==
    {i \in DOMAIN txt : /\ IsLink(txt[i])
                        /\ StartsWithHttp(txt[i].url)
                        /\ RStrip(txt[i].url, Punctuation) = u}

\* the positions where the pass for a link form reads u
ReadAs(txt, u, form) ==
    {i \in Occurrences(txt, u) :
        IF form = "bare" THEN ~txt[i].near ELSE txt[i].form = form}

CitationsOf(cs, u) == {i \in DOMAIN cs : cs[i].url = u}

\* trailing punctuation and trailing slashes stripped
NormalizedUrl(u) == RStrip(u, Punctuation \cup {"/"})

NoSharedUrl(cs) ==
    \A i, j \in DOMAIN cs : i # j => NormalizedUrl(cs[i].url) # NormalizedUrl(cs[j].url)

Returned == article # NoArticle

\* C2: every citation list extracted from a page (extract_citations_from_text,
\* _extract_citations, fetch_grokipedia_article) has at most as many entries
\* as there are raw link matches, and no two of its citations have the same
\* URL once trailing punctuation and trailing slashes are stripped.
C2_CitationsDeduplicated ==
    /\ entry = "extract_citations_from_text" =>
          /\ Len(citations) <= Len(LinksOf(text))
          /\ NoSharedUrl(citations)
    /\ (entry = "fetch_article" /\ Returned) =>
          /\ Len(article.citations) <= Len(page.links) + Len(LinksOf(article.content))
          /\ NoSharedUrl(article.citations)
    /\ (entry = "fetch_grokipedia_article" /\ Returned) =>
          /\ Len(article.citations) <= Len(LinksOf(article.content))
          /\ NoSharedUrl(article.citations)

\* neither the structured selectors nor the embedded payload yield body text
NoBodyText(p) == _extract_content(p) = <<>> /\ extract_markdown_content(p) = None

\* C5: when neither extraction strategy yields non-empty body text, the fetch
\* returns no article record (fetch_article and fetch_grokipedia_article).
C5_EmptyBodyIsFailure ==
    (entry \in {"fetch_article", "fetch_grokipedia_article"} /\ NoBodyText(page))
        => ~Returned

\* C6: for a page whose structured selectors yield an empty body but which
\* holds an embedded chunk with a top-level heading, fetch_article (the
\* pipeline's entry point) returns the chunk's title and body.
C6_EmbeddedPayloadFallback ==
    (/\ entry = "fetch_article"
     /\ page.ok
     /\ raising = {}
     /\ _extract_content(page) = <<>>
     /\ extract_markdown_content(page) # None)
        => /\ Returned
           /\ article.title = extract_markdown_content(page)[1].heading
           /\ article.content = fetch_grokipedia_article(page).content

\* C7: a classification that raises for one citation URL does not abort the
\* others: the article is returned with every citation, the failing one with
\* category "other" and the default reliability 0.5.
C7_ClassificationFailureIsolated ==
    (/\ entry = "fetch_article"
     /\ page.ok
     /\ \E u \in Classified(config, page.links, _extract_content(page)) : u.host \in raising)
        => /\ Returned
           /\ \A c \in Range(_extract_citations(config, page.links, _extract_content(page))) :
                 \E d \in Range(article.citations) :
                    /\ d.url = c.url
                    /\ c.url.host \in raising =>
                          (d.source_type = "other" /\ d.reliability = R(1, 2))

\* C9: the passes run in the precedence markdown, HTML anchor, bare URL and
\* each skips a URL an earlier pass captured: a URL written in several forms
\* yields exactly one citation, of the highest-precedence form; a markdown
\* link, an HTML anchor and a separate bare URL with three distinct URLs, in
\* that textual order, yield exactly three citations of type markdown, html,
\* bare in that order.
C9_PassPrecedence ==
    entry = "extract_citations_from_text" =>
        /\ \A i \in DOMAIN text :
              LET u == RStrip(text[i].url, Punctuation)
              IN  (\E f \in Range(LinkForms) : ReadAs(text, u, f) # {}) =>
                    /\ Cardinality(CitationsOf(citations, u)) = 1
                    /\ \A k \in CitationsOf(citations, u) :
                          Precedence(citations[k].type)
                              = Min({Precedence(text[j].form) : j \in Occurrences(text, u)})
        /\ LET ls == LinksOf(text)
           IN  (/\ Len(ls) = 3
                /\ \A i \in 1..3 : ls[i].form = LinkForms[i] /\ StartsWithHttp(ls[i].url)
                /\ ~ls[3].near
                /\ Cardinality({RStrip(ls[i].url, Punctuation) : i \in 1..3}) = 3)
                   => citations = [i \in 1..3 |->
                                     Citation(IF i = 3 THEN RStrip(ls[i].url, Punctuation)
                                              ELSE ls[i].text,
                                              RStrip(ls[i].url, Punctuation), LinkForms[i])]

\* C9 witness: a URL written as a bare URL and, further on, as a markdown
\* link, returned as one markdown citation
C9_Witness ==
    /\ entry = "extract_citations_from_text"
    /\ \E i, j \in DOMAIN text :
          /\ i < j
          /\ text[i].form = "bare" /\ ~text[i].near /\ StartsWithHttp(text[i].url)
          /\ text[j].form = "markdown"
          /\ RStrip(text[i].url, Punctuation) = RStrip(text[j].url, Punctuation)
          /\ \E k \in DOMAIN citations :
                /\ citations[k].url = RStrip(text[i].url, Punctuation)
                /\ citations[k].type = "markdown"

\* the position of the first occurrence of a returned URL in the text
FirstOccurrence(txt, u) == Min(Occurrences(txt, u))

InCaptureOrder(txt, c, d) ==
    \/ Precedence(c.type) < Precedence(d.type)
    \/ /\ c.type = d.type
       /\ Min(ReadAs(txt, c.url, c.type)) < Min(ReadAs(txt, d.url, d.type))

ValidHrefs(cfg, p) ==
    {p.links[i].href : i \in {k \in DOMAIN p.links : _is_valid_citation_url(cfg, p.links[k].href)}}

FirstLink(p, u) == Min({i \in DOMAIN p.links : p.links[i].href = u})

----------------------------------------------------------------------------
(* Properties of the analysis *)

Analyzed == "bias_metrics" \in DOMAIN results

SourceAttr(field) == Attr(graph, SourceIds(graph), field)

\* C11: for a graph with 10 source nodes, 9 of them of one domain, whatever
\* their categories among the five, analyze with BIAS_THRESHOLD = 0.5 reports
\* top_domain_percentage 0.9 and emits high_source_concentration (high).
C11_NineOfTenFlagged ==
    (/\ Analyzed
     /\ Len(SourceIds(graph)) = 10
     /\ MaxCount(SourceAttr("domain")) = 9
     /\ Range(SourceAttr("source_type")) \subseteq Categories
     /\ config.BIAS_THRESHOLD = R(1, 2))
        => /\ results.bias_metrics.top_domain_percentage = R(9, 10)
           /\ Flag("high_source_concentration", "high") \in Range(results.red_flags)

\* C11 witness: such a graph whose sources are spread evenly over the five
\* categories, two of each
C11_Witness ==
    /\ Analyzed
    /\ Len(SourceIds(graph)) = 10
    /\ MaxCount(SourceAttr("domain")) = 9
    /\ MaxCount(SourceAttr("source_type")) = 2
    /\ results.bias_metrics.source_concentration = R(11, 20)

\* what a run alone obtains
Alone(data) ==
    [graph |-> build_graph(data),
     analysis |-> analyze(config, NewGraphAnalyzer, build_graph(data))]

\* C12: every parallel run ends with the graph and the analysis result it
\* obtains when run alone, and its graph holds only its own article and
\* sources -- on separate builders and on one shared builder.
C12_ParallelRunsIsolated ==
    \A t \in Threads :
        threads[t].pc = "done" =>
            /\ objects[threads[t].graph] = Alone(threads[t].data).graph
            /\ threads[t].analysis = Alone(threads[t].data).analysis

ArticleNodes(g) == {i \in DOMAIN g.nodes : Get(g.nodes[i], "node_type", "") = "article"}

\* the positions of the citations with the URL u
CitedAt(cs, u) == {i \in DOMAIN cs : cs[i].url = u}

Max(S) == CHOOSE m \in S : \A x \in S : x <= m

\* C13: a built graph has exactly one article node; the source node of a URL
\* has the domain, source_type and reliability of the first citation with
\* that URL, and the edge to it the weight and citation_text of the last.
C13_FirstCitationKeepsNode ==
    Built =>
        LET cs == article_data.citations
        IN  /\ Cardinality(ArticleNodes(graph)) = 1
            /\ Node(graph, article_data.url).node_type = "article"
            /\ \A i \in DOMAIN cs :
                  LET u == cs[i].url
                      first == cs[Min(CitedAt(cs, u))]
                      last == cs[Max(CitedAt(cs, u))]
                  IN  /\ u # article_data.url => Node(graph, u) = SourceNode(first)
                      /\ \E e \in Edges(graph) :
                            /\ e.from = article_data.url /\ e.to = u
                            /\ e.weight = _calculate_edge_weight(last, article_data)
                            /\ e.citation_text = Get(last, "text", Label(""))

\* C13 witness: a list that cites one URL twice, with other attributes the
\* second time
C13_Witness ==
    /\ Built
    /\ \E i, j \in DOMAIN article_data.citations :
          /\ i < j
          /\ article_data.citations[i].url = article_data.citations[j].url
          /\ SourceNode(article_data.citations[i]) # SourceNode(article_data.citations[j])
          /\ Node(graph, article_data.citations[i].url) = SourceNode(article_data.citations[i])

\* C14: an analyze() call leaves the graph as it was: the same nodes and
\* edges with the same attributes, for any graph (no step that changes the
\* graph is an analyze() call).
C14_AnalyzeLeavesGraph ==
    [][graph' # graph => ~Analyze]_vars

\* C14 witness: an analysis has run on a graph with two source nodes and an
\* out-of-range reliability, and the graph is still the one that was built
C14_Witness ==
    /\ Analyzed
    /\ Len(SourceIds(graph)) >= 2
    /\ \E r \in Range(SourceAttr("reliability")) : ~InUnit(r)
    /\ graph = build_graph(article_data)

----------------------------------------------------------------------------
(* Properties of the classification and the scores *)

AcademicSuffixes == {"edu", "ac.uk", "edu.au"}

GovernmentSuffixes == {"gov", "gov.uk"}

\* the positions of the configured categories with a keyword in the host
Matching(cfg, h) ==
    {i \in DOMAIN cfg.SOURCE_CATEGORIES :
        \E k \in Range(cfg.SOURCE_CATEGORIES[i].keywords) : InDomain(k, h)}

\* C15: the category is decided by the suffix first (academic, government,
\* ngo), then by the first configured category with a keyword in the domain,
\* then it is "other".
C15_ClassificationPrecedence ==
    score.called =>
        LET h == score.url.host
            suffix == Suffix(h)
        IN  score.category =
                IF suffix \in AcademicSuffixes THEN "academic"
                ELSE IF suffix \in GovernmentSuffixes THEN "government"
                ELSE IF suffix = "org" THEN "ngo"
                ELSE IF Matching(config, h) # {}
                     THEN config.SOURCE_CATEGORIES[Min(Matching(config, h))].category
                     ELSE "other"

\* C15 witness: a URL with an academic suffix and a government keyword was
\* classified academic
C15_Witness ==
    /\ score.called
    /\ Suffix(score.url.host) \in AcademicSuffixes
    /\ \E i \in Matching(config, score.url.host) :
          config.SOURCE_CATEGORIES[i].category = "government"
    /\ score.category = "academic"

\* the URL points back at the site the article comes from
PointsAtSourceSite(u) == NormalizeHost(u.host) = <<"grokipedia", "com">>

\* C16: no citation of an ingested article has a URL without an http(s)
\* scheme, a URL that points back at the source site, or a URL that starts
\* with mailto:, javascript:, tel: or #.
C16_NoRejectedUrlCited ==
    (entry \in {"fetch_article", "fetch_grokipedia_article"} /\ Returned) =>
        \A c \in Range(article.citations) :
            /\ StartsWithHttp(c.url)
            /\ ~PointsAtSourceSite(c.url)
            /\ c.url.scheme \notin ExcludedPrefixes

----------------------------------------------------------------------------
(* Properties of the red flags *)

\* the five flags in the order of the specification
FlagOrder ==
    << Flag("insufficient_citations", "high"),
       Flag("low_reliability_dominance", "medium"),
       Flag("high_source_concentration", "high"),
       Flag("single_cluster_risk", "high"),
       Flag("missing_viewpoint_diversity", "medium") >>

\* the condition of a flag, on the graph and on the bias metrics reported for it
FlagCondition(type) ==
    LET reliability == SourceAttr("reliability")
        low == {i \in DOMAIN reliability : RLt(reliability[i], R(2, 5))}
    IN  CASE type = "insufficient_citations" ->
                Len(SourceIds(graph)) < config.MIN_CITATIONS
          [] type = "low_reliability_dominance" ->
                2 * Cardinality(low) > Len(SourceIds(graph))
          [] type = "high_source_concentration" ->
                RLt(config.BIAS_THRESHOLD, results.bias_metrics.source_concentration)
          [] type = "single_cluster_risk" ->
                RLt(config.CLUSTER_RISK_THRESHOLD, results.bias_metrics.single_cluster_risk)
          [] type = "missing_viewpoint_diversity" ->
                \E t \in {"academic", "government", "news"} :
                    t \notin Range(SourceAttr("source_type"))

FlagHolds(flag) == FlagCondition(flag.type)

\* C17: the red flags of an analysis of the graph are the flags whose own
\* condition holds on that graph, each once, in the fixed order.
C17_FlagsIndependent ==
    history # <<>> =>
        /\ Analyzed
        /\ results.red_flags = SelectSeq(FlagOrder, FlagHolds)

----------------------------------------------------------------------------
(* Properties of the diversity score and the edge weights *)

\* the domains of a list, as registrable domains
Domains(ds) == {NormalizeHost(ds[i]) : i \in DOMAIN ds}

\* the fraction of the list a domain holds
DomainShare(ds, d) ==
    R(Cardinality({i \in DOMAIN ds : NormalizeHost(ds[i]) = d}), Len(ds))

\* the largest per-domain fraction
TopDomainShare(ds) ==
    CHOOSE s \in {DomainShare(ds, d) : d \in Domains(ds)} :
        \A d \in Domains(ds) : RLe(DomainShare(ds, d), s)

\* (uniqueDomains / totalDomains) * (1 - 0.5 * topDomainShare)
DomainDiversityScore(ds) ==
    RMul(R(Cardinality(Domains(ds)), Len(ds)),
         RSub(One, RMul(R(1, 2), TopDomainShare(ds))))

\* the edge from the article to the URL u
EdgeTo(u) == CHOOSE e \in Edges(graph) : e.from = article_data.url /\ e.to = u

\* the two boosts of the article: 0.2 * domainDiversityScore of all domains
\* of the list, and min(0.1, 0.02 * number of distinct categories)
DiversityBoost(cs) ==
    LET ds == [i \in DOMAIN cs |-> Get(cs[i], "domain", <<>>)]
    IN  RMul(R(1, 5), IF ds = <<>> THEN Zero ELSE DomainDiversityScore(ds))

TypeBoost(cs) ==
    LET n == Cardinality({Get(cs[i], "source_type", "other") : i \in DOMAIN cs})
    IN  IF n >= 5 THEN R(1, 10) ELSE R(2 * n, 100)

\* C18: the weight of every edge is clamp01(reliability + diversity boost +
\* type boost) with the reliability of the citation the edge was last written
\* for and the two boosts of the whole citation list; edges whose citations
\* have equal reliability have equal weights.
C18_EdgeWeightFormula ==
    Built =>
        LET cs == article_data.citations
            last(u) == cs[Max(CitedAt(cs, u))]
            reliability(u) == Get(last(u), "reliability", R(1, 2))
        IN  /\ \A i \in DOMAIN cs :
                  EdgeTo(cs[i].url).weight =
                      Clamp01(RAdd(RAdd(reliability(cs[i].url), DiversityBoost(cs)),
                                   TypeBoost(cs)))
            /\ \A i, j \in DOMAIN cs :
                  reliability(cs[i].url) = reliability(cs[j].url)
                      => EdgeTo(cs[i].url).weight = EdgeTo(cs[j].url).weight

\* C18 witness: a graph of two citations of different domains and categories
\* whose weights are below 1 and differ by the difference of the reliabilities
C18_Witness ==
    /\ Built
    /\ Len(graph.edges) = 2
    /\ Cardinality(Domains(SourceAttr("domain"))) = 2
    /\ Cardinality(Range(SourceAttr("source_type"))) = 2
    /\ \A e \in Edges(graph) : RLt(Zero, e.weight) /\ RLt(e.weight, One)
    /\ graph.edges[1].weight # graph.edges[2].weight

\* C19: calculate_diversity_score returns 0 for the empty list and
\* (uniqueDomains / totalDomains) * (1 - 0.5 * topDomainShare) for any other,
\* the domains being registrable domains; a list of one domain scores 0.5.
C19_DiversityScoreFormula ==
    measure.called =>
        /\ measure.domains = <<>> => measure.value = Zero
        /\ measure.domains # <<>> =>
              measure.value = DomainDiversityScore(measure.domains)
        /\ Len(measure.domains) = 1 => measure.value = R(1, 2)

\* C19 witness: the score of a list of three entries in two domains, one of
\* them written with a subdomain
C19_Witness ==
    /\ measure.called
    /\ Len(measure.domains) = 3
    /\ Cardinality(Domains(measure.domains)) = 2
    /\ Cardinality(Range(measure.domains)) = 3
    /\ measure.value = R(4, 9)

\* the base score of a category: 0.5 for one the table does not hold
BaseScore(t) ==
    IF t \in DOMAIN config.RELIABILITY_SCORES THEN config.RELIABILITY_SCORES[t] ELSE R(1, 2)

\* the public suffix of the host is in the trusted set
Trusted(h) == Suffix(h) \in config.TRUSTED_DOMAINS

\* the host contains a low-trust hosting name
LowTrustHosting(h) == \E s \in {"blogspot", "wordpress", "tumblr", "wix"} : InDomain(s, h)

\* C20: the reliability of a URL is its category's base score (0.5 for an
\* unknown category), plus 0.1 for a trusted suffix, minus 0.2 for a
\* low-trust hosting name, clamped to [0,1] once, after both adjustments.
C20_ReliabilityFormula ==
    score.called =>
        LET h == score.url.host
            bonus == IF Trusted(h) THEN R(1, 10) ELSE Zero
            penalty == IF LowTrustHosting(h) THEN R(1, 5) ELSE Zero
            sum == RSub(RAdd(BaseScore(score.source_type), bonus), penalty)
        IN  score.value = (IF RLt(sum, Zero) THEN Zero ELSE IF RLt(One, sum) THEN One ELSE sum)

\* C20 witness: a base score of 1 with the bonus and the penalty gives 0.9
C20_Witness ==
    /\ score.called
    /\ BaseScore(score.source_type) = One
    /\ Trusted(score.url.host)
    /\ LowTrustHosting(score.url.host)
    /\ score.value = R(9, 10)

----------------------------------------------------------------------------
(* Properties of the metrics *)

\* the result at hand is that of an analyze() call on the graph as it is now
Current == history # <<>>

SourceCount == Len(SourceIds(graph))

\* the share of the source nodes of the graph whose attribute has the value v
ShareOf(field, v) ==
    R(Cardinality({i \in DOMAIN SourceAttr(field) : SourceAttr(field)[i] = v}), SourceCount)

\* the share of the most common value of the attribute
TopShare(field) ==
    CHOOSE s \in {ShareOf(field, v) : v \in Range(SourceAttr(field))} :
        \A v \in Range(SourceAttr(field)) : RLe(ShareOf(field, v), s)

\* C21: on a graph with a source node, top_domain_percentage is the share of
\* the most common domain among the source nodes, single_cluster_risk the
\* share of the most common category, and source_concentration their average.
C21_BiasMetricsAreShares ==
    (Current /\ SourceCount >= 1) =>
        /\ Analyzed
        /\ results.bias_metrics.top_domain_percentage = TopShare("domain")
        /\ results.bias_metrics.single_cluster_risk = TopShare("source_type")
        /\ results.bias_metrics.source_concentration =
              RMul(R(1, 2), RAdd(TopShare("domain"), TopShare("source_type")))

\* the sum of f over the source nodes of the graph, by position
RECURSIVE SumOver(_, _)
SumOver(xs, n) == IF n = 0 THEN Zero ELSE RAdd(SumOver(xs, n - 1), xs[n])

\* mean(reliability) over the source nodes of the graph
MeanReliability == RMul(R(1, SourceCount), SumOver(SourceAttr("reliability"), SourceCount))

\* variance(reliability): the mean of the squares less the square of the mean
VarianceReliability ==
    LET rs == SourceAttr("reliability")
        squares == [i \in DOMAIN rs |-> RMul(rs[i], rs[i])]
    IN  RSub(RMul(R(1, SourceCount), SumOver(squares, SourceCount)),
             RMul(MeanReliability, MeanReliability))

\* 0.4 * uniqueDomains/sourceCount + 0.4 * uniqueCategories/sourceCount
\*     + 0.2 * clamp01(4 * variance(reliability))
OverallDiversity ==
    LET spread == RMul(R(4, 1), VarianceReliability)
        clamped == IF RLt(One, spread) THEN One ELSE IF RLt(spread, Zero) THEN Zero ELSE spread
    IN  RAdd(RAdd(RMul(R(2, 5), R(Cardinality(Range(SourceAttr("domain"))), SourceCount)),
                  RMul(R(2, 5), R(Cardinality(Range(SourceAttr("source_type"))), SourceCount))),
             RMul(R(1, 5), clamped))

\* C22: on a graph with a source node, overall_quality is 0.4 * mean
\* reliability + 0.3 * overall_diversity + 0.3 * min(1, sourceCount / 10),
\* overall_diversity being the value of the diversity metrics of the same
\* result, which is the weighted sum of the domain, category and reliability
\* diversities of the graph.
C22_QualityFormula ==
    (Current /\ SourceCount >= 1) =>
        /\ Analyzed
        /\ results.quality_scores.overall_quality =
              RAdd(RAdd(RMul(R(2, 5), MeanReliability),
                        RMul(R(3, 10), results.diversity_metrics.overall_diversity)),
                   RMul(R(3, 10), IF SourceCount >= 10 THEN One ELSE R(SourceCount, 10)))
        /\ results.diversity_metrics.overall_diversity = OverallDiversity

----------------------------------------------------------------------------
(* Properties of the recommendations *)

\* the templates in the order of the specification
TemplateOrder ==
    << "overall_quality_below_standards",
       "high_concentration",
       "limited_source_type_diversity",
       "low_average_reliability",
       "add_missing_types" >>

\* the categories the result counted sources of
ObservedCategories == DOMAIN Get(results.bias_metrics, "source_type_distribution", <<>>)

\* the condition of a template, on the metrics of the result
Triggered(template) ==
    CASE template = "overall_quality_below_standards" ->
            RLt(results.quality_scores.overall_quality, R(3, 5))
      [] template = "high_concentration" ->
            RLt(R(1, 2), results.bias_metrics.source_concentration)
      [] template = "limited_source_type_diversity" ->
            RLt(results.diversity_metrics.source_type_diversity, R(1, 2))
      [] template = "low_average_reliability" ->
            RLt(results.quality_scores.source_reliability, R(3, 5))
      [] template = "add_missing_types" ->
            \E t \in {"academic", "government"} : t \notin ObservedCategories

Templates(recommendations) ==
    [i \in DOMAIN recommendations |-> recommendations[i].template]

\* C23: the recommendations of a result are the templates whose condition
\* holds on the metrics of that result, one each, in the fixed order.
C23_RecommendationsInOrder ==
    Analyzed => Templates(results.recommendations) = SelectSeq(TemplateOrder, Triggered)

\* C23 witness: a result with the diversity and the reliability
\* recommendation but not all five
C23_Witness ==
    /\ Analyzed
    /\ Triggered("limited_source_type_diversity")
    /\ Triggered("low_average_reliability")
    /\ Len(results.recommendations) \in 2..4

\* C29: a result that recommends adding the missing academic or government
\* sources also flags missing_viewpoint_diversity, and with BIAS_THRESHOLD at
\* least 0.5 a result that flags high_source_concentration also makes the
\* high-concentration recommendation.
C29_RecommendationsMatchFlags ==
    Analyzed =>
        /\ "add_missing_types" \in Range(Templates(results.recommendations))
              => Flag("missing_viewpoint_diversity", "medium") \in Range(results.red_flags)
        /\ (/\ Flag("high_source_concentration", "high") \in Range(results.red_flags)
            /\ RLe(R(1, 2), config.BIAS_THRESHOLD))
              => "high_concentration" \in Range(Templates(results.recommendations))

\* C29 witness: a result on a graph with sources that has both
\* recommendations and both flags
C29_Witness ==
    /\ Analyzed
    /\ SourceCount >= 1
    /\ {"add_missing_types", "high_concentration"} \subseteq Range(Templates(results.recommendations))
    /\ {Flag("missing_viewpoint_diversity", "medium"), Flag("high_source_concentration", "high")}
          \subseteq Range(results.red_flags)
    /\ "news" \in Range(SourceAttr("source_type"))

\* C30: on a graph with more than 10 source nodes, all of the five
\* categories, the result reports a source_type_diversity below 0.5 and makes
\* the limited-source-type-diversity recommendation.
C30_ManySourcesLimitedDiversity ==
    (/\ Current
     /\ SourceCount > 10
     /\ Range(SourceAttr("source_type")) \subseteq Categories)
        => /\ Analyzed
           /\ RLt(results.diversity_metrics.source_type_diversity, R(1, 2))
           /\ "limited_source_type_diversity" \in Range(Templates(results.recommendations))

----------------------------------------------------------------------------
(* Properties of the payload decoder *)

\* C24: unescaping the escaped form of a text over newline, tab, quote,
\* backslash and letters gives the text back, also when it holds a backslash
\* followed by the letter n or t.
C24_UnescapeInvertsEscape ==
    payload.called => payload.markdown = payload.text

----------------------------------------------------------------------------
(* Properties of the analyzer's source list *)

\* the total of a counting dict
RECURSIVE Total(_)
Total(counts) ==
    IF DOMAIN counts = {} THEN 0
    ELSE LET k == CHOOSE key \in DOMAIN counts : TRUE
         IN  counts[k] + Total([key \in DOMAIN counts \ {k} |-> counts[key]])

\* the number of source nodes the bias metrics of the result counted
CountedByBias == Total(Get(results.bias_metrics, "source_type_distribution", <<>>))

\* the number of source nodes behind min(1, count / 10), below the cap
CountedByQuality ==
    LET q == Get(results.quality_scores, "citation_count_score", Zero)
    IN  CHOOSE n \in 0..10 : q = R(n, 10)

\* C25: the parts of a result obtained on the graph as it is now all count
\* the source nodes the graph now has, also after nodes were added or removed
\* since the analyzer's previous analyze() call.
C25_OneCurrentSourceSet ==
    (Current /\ SourceCount < 10) =>
        /\ Analyzed
        /\ CountedByBias = SourceCount
        /\ CountedByQuality = SourceCount
        /\ Get(results.diversity_metrics, "unique_domains", 0)
              = Cardinality(Range(SourceAttr("domain")))
        /\ (Flag("insufficient_citations", "high") \in Range(results.red_flags))
              <=> (SourceCount < config.MIN_CITATIONS)
        /\ SourceCount >= 1 => results.quality_scores.source_reliability = MeanReliability


\* the nodes the builder holds after build_graph(article_data)
Held == objects[builders[1]]

\* the URLs the citations of the most recent call cite
Cited == {article_data.citations[i].url : i \in DOMAIN article_data.citations}

\* the node ids the clusters list
Clustered ==
    LET clusters == get_source_clusters(Held)
    IN  UNION {Range(clusters[k]) : k \in DOMAIN clusters}

LatestOnly ==
    Builds >= 1 =>
        /\ NodeIds(Held) = {article_data.url} \cup Cited
        /\ {Held.nodes[i].id : i \in ArticleNodes(Held)} = {article_data.url}
        /\ {<<e.from, e.to>> : e \in Edges(Held)} = {<<article_data.url, u>> : u \in Cited}
        /\ get_graph_stats(Held).total_nodes = Cardinality({article_data.url} \cup Cited)
        /\ get_graph_stats(Held).article_nodes = 1
        /\ get_graph_stats(Held).source_nodes = Cardinality(Cited \ {article_data.url})
        /\ get_graph_stats(Held).total_edges = Cardinality(Cited)
        /\ Clustered = Cited \ {article_data.url}

\* C26: after any sequence of build_graph calls on one builder, the graph the
\* builder holds, and get_graph_stats and get_source_clusters report, has
\* exactly the article node and the sources of the most recent call, and no
\* later call alters a graph an earlier call returned.
C26_BuilderHoldsLatestOnly ==
    /\ []LatestOnly
    /\ [][\A k \in DOMAIN objects : objects'[k] = objects[k]]_vars

\* a second call for another article, whose citations leave out a source of
\* the first
C26_Witness ==
    /\ Builds = 2
    /\ \E k \in DOMAIN objects :
          /\ k # builders[1]
          /\ NodeIds(objects[k]) \ NodeIds(Held) # {}
          /\ \E i \in ArticleNodes(objects[k]) : objects[k].nodes[i].id # article_data.url
    /\ Cited # {}


\* the numbered steps of main()
StepOrder == <<"ingest", "build", "analyze", "grok", "output">>

\* the steps taken so far are the first steps, in order
StepsInOrder == run.steps = SubSeq(StepOrder, 1, Len(run.steps))

\* no article: exit status 1 right after step 1, no graph built, nothing written
NoArticleExits ==
    (run.steps # <<>> /\ article = NoArticle) =>
        /\ run.pc = "exit"
        /\ run.status = Some(1)
        /\ run.steps = <<"ingest">>
        /\ graph = EmptyGraph
        /\ "outputs" \notin DOMAIN run

\* the analysis main() holds after step 3 is that of the article's graph
AnalysisOfArticle ==
    run.pc = "grok" =>
        /\ results = Alone(article).analysis
        /\ results # KeyError

\* the output step works on that analysis, and on empty lists unless the Grok
\* step succeeded
OutputUsesAnalysis ==
    run.pc = "done" =>
        /\ run.steps = StepOrder
        /\ run.written.article_data = article
        /\ run.written.analysis_results = results
        /\ run.outputs # <<>>
        /\ run.grok \in {"raised", "skipped"} =>
              /\ run.written.citation_suggestions = <<>>
              /\ run.written.rewrites = <<>>

\* C27: main() runs ingest, build graph, analyze, Grok suggestions, write
\* outputs in this order; with no article it exits with status 1 before a
\* graph is built or a file written; with an article the output step is always
\* reached, with the analysis results, and with empty suggestion and rewrite
\* lists when the Grok step raised or was skipped.
C27_PipelineOrder ==
    /\ [](StepsInOrder /\ NoArticleExits /\ AnalysisOfArticle /\ OutputUsesAnalysis)
    /\ (run.pc = "build") ~> (run.pc = "done")

\* a run whose Grok step raised and that wrote its outputs from the analysis
\* of an article with citations
C27_Witness ==
    /\ run.pc = "done"
    /\ run.grok = "raised"
    /\ article.citations # <<>>
    /\ run.written.analysis_results.recommendations # <<>>


\* the reliability build_graph reads from the i-th citation
ReliabilityOf(i) == Get(article_data.citations[i], "reliability", R(1, 2))

\* the weight build_graph writes on the edge of the i-th citation; the edge of
\* a URL cited again holds the weight of the last citation of the URL
WeightOf(i) == _calculate_edge_weight(article_data.citations[i], article_data)

\* what the two boosts add to the reliability of the i-th citation
BoostsOf(i) == RSub(Weight(article_data.citations[i], article_data), ReliabilityOf(i))

\* C28: a citation with reliability in [0,1] gets an edge weight of at least
\* its reliability, the two boosts being at least 0 and together at most 0.3,
\* and within one graph a citation of higher reliability never gets a lower
\* weight than one of lower reliability.
C28_WeightAtLeastReliability ==
    Built =>
        LET cs == article_data.citations
            InRange == {i \in DOMAIN cs : InUnit(ReliabilityOf(i))}
        IN  /\ \A i \in DOMAIN cs :
                  i = Max(CitedAt(cs, cs[i].url)) => EdgeTo(cs[i].url).weight = WeightOf(i)
            /\ \A i \in InRange :
                  /\ RLe(ReliabilityOf(i), WeightOf(i))
                  /\ RLe(Zero, BoostsOf(i))
                  /\ RLe(BoostsOf(i), R(3, 10))
            /\ \A i, j \in InRange :
                  RLt(ReliabilityOf(i), ReliabilityOf(j)) => RLe(WeightOf(i), WeightOf(j))

\* C28 witness: two citations with reliabilities in [0,1], the lower with a
\* weight above its reliability and below the weight of the higher
C28_Witness ==
    /\ Built
    /\ \E i, j \in DOMAIN article_data.citations :
          /\ InUnit(ReliabilityOf(i)) /\ InUnit(ReliabilityOf(j))
          /\ RLt(ReliabilityOf(i), ReliabilityOf(j))
          /\ RLt(ReliabilityOf(i), WeightOf(i))
          /\ RLt(WeightOf(i), WeightOf(j))
          /\ EdgeTo(article_data.citations[i].url).weight = WeightOf(i)

====
